---- MODULE Spec2Model ----
(***************************************************************************)
(* Jan-Seva AI request orchestration: the topic-moderation protocol of the *)
(* text-chat endpoint over the in-memory session store, the provider       *)
(* dispatcher, the research cache, the profile fingerprint, the quality    *)
(* scorer with its verified-source filter and source selection, the LLM    *)
(* fallback chain, the three tiers of chat_text, the topic guard, the      *)
(* session store call by call, the state resolution of a request,          *)
(* APIAggregator.query step by step, the channels that lead into it, the   *)
(* rate limiter, the multi-query fan-out, the OpenAI key settings, the     *)
(* domain trust lookup, the chat history under concurrent requests and the *)
(* research cache thread by thread.                                        *)
(* Each part has its own specification over the shared variables.          *)
(***************************************************************************)
EXTENDS Integers, Sequences, FiniteSets, TLC

VARIABLES
    now,          \* time.time(), in seconds
    sessions,     \* session_store._sessions: session id -> UserSession
    reqs,         \* in-flight chat_text coroutines, one per slot
    ev,           \* what the latest step did to a request: NoEv, or its moderation
                  \* and, when it ended there, its response
    warnsGiven,   \* per session: WARN queries counted by the observer
    thirdWarnAt,  \* per session: time of the third counted WARN query, or -1
    arrivals,     \* number of requests received so far
    tasks,        \* the dispatcher's provider tasks, in the order of the tasks dict
    dclock,       \* seconds since the dispatcher began to wait
    dpc,          \* the dispatching coroutine: "idle", "waiting", "merged", "raised"
    responses,    \* the responses dict: (task key, ProviderResponse) in insertion order
    merged,       \* all_results, all_images, ai_answers
    returned_at,  \* dclock when asyncio.wait returned, or -1
    cnow,         \* int(time.time()) as the research cache reads it
    enabled,      \* ResearchCache.enabled
    table,        \* the rows of the research_cache table
    cacheOp,      \* the latest cache call, with its result
    lastPut,      \* per cache key: the latest put (its time and payload)
    fpCall,       \* two calls of _build_profile_fingerprint, with their results
    scCall,       \* a call of score_results, with its result
    fvCall,       \* a call of filter_verified_results, with its result
    rkCall,       \* one pass of the orchestrator from the merged results to the
                  \* payload, with what it computed
    gen,          \* the LLMClient singleton and its generate coroutine
    tier,         \* a chat_text coroutine past moderation: its tier and response
    tgCall,       \* a call of TopicGuard.classify, with its verdict
    ss,           \* one UserSession of the store, called function by function
    ssOp,         \* the latest session-store call on it, with the session before
    ssCount,      \* the number of append_chat calls on it so far
    rsSess,       \* the UserSession of a session whose requests are followed
    rsOp,         \* its latest request: what it named, what the lookup gave, the
                  \* state used for it
    rsNamed,      \* the state the user named last in a query of the session
    pq,           \* the APIAggregator.query coroutine of the request followed
    pqSess,       \* the UserSession of its session
    pqTable,      \* the rows of the research_cache table it reads and writes
    epSess,       \* the UserSession of a user who comes in over several channels
    epOp,         \* the latest request of that user: its channel and what ran
    epCount,      \* the number of that user's requests so far
    rl,           \* the RateLimiter middleware and the latest request it saw
    foCall,       \* one fan-out of the orchestrator: its sub-queries and tasks
    oa,           \* the OpenAI key settings and the latest all_openai_keys read
    trCall,       \* a call of domain_reliability, with its result
    hs,           \* a session whose requests run concurrently
    hsReqs,       \* per slot: the number of the request suspended there, or 0
    hsCount,      \* the requests of the session that arrived so far
    thTable,      \* the rows of a cache that is called from threads
    thNow,        \* its clock
    thLock,       \* the threads that hold self._lock
    th,           \* per thread: where it is in get or put, and its locals
    thCalls       \* the calls made so far

chatVars == <<now, sessions, reqs, ev, warnsGiven, thirdWarnAt, arrivals>>
dispVars == <<tasks, dclock, dpc, responses, merged, returned_at>>
cacheVars == <<cnow, enabled, table, cacheOp, lastPut>>
fpVars == <<fpCall>>
scoreVars == <<scCall>>
verifyVars == <<fvCall, rkCall>>
llmVars == <<gen>>
tierVars == <<tier>>
guardVars == <<tgCall>>
storeVars == <<ss, ssOp, ssCount>>
resolveVars == <<rsSess, rsOp, rsNamed>>
pipeVars == <<pq, pqSess, pqTable>>
entryVars == <<epSess, epOp, epCount>>
rateVars == <<rl>>
fanVars == <<foCall>>
keysVars == <<oa>>
trustVars == <<trCall>>
histVars == <<hs, hsReqs, hsCount>>
threadVars == <<thTable, thNow, thLock, th, thCalls>>

vars == <<chatVars, dispVars, cacheVars, fpVars, scoreVars, verifyVars,
          llmVars, tierVars, guardVars, storeVars, resolveVars, pipeVars,
          entryVars, rateVars, fanVars, keysVars, trustVars, histVars,
          threadVars>>

\* What the actions of one part leave alone: the variables of the other parts.
chatFrame == <<dispVars, cacheVars, fpVars, scoreVars, verifyVars, llmVars,
               tierVars, guardVars, storeVars, resolveVars, pipeVars,
               entryVars, rateVars, fanVars, keysVars, trustVars, histVars,
               threadVars>>
dispFrame == <<chatVars, cacheVars, fpVars, scoreVars, verifyVars, llmVars,
               tierVars, guardVars, storeVars, resolveVars, pipeVars,
               entryVars, rateVars, fanVars, keysVars, trustVars, histVars,
               threadVars>>
cacheFrame == <<chatVars, dispVars, fpVars, scoreVars, verifyVars, llmVars,
                tierVars, guardVars, storeVars, resolveVars, pipeVars,
                entryVars, rateVars, fanVars, keysVars, trustVars, histVars,
                threadVars>>
fpFrame == <<chatVars, dispVars, cacheVars, scoreVars, verifyVars, llmVars,
             tierVars, guardVars, storeVars, resolveVars, pipeVars,
             entryVars, rateVars, fanVars, keysVars, trustVars, histVars,
             threadVars>>
scoreFrame == <<chatVars, dispVars, cacheVars, fpVars, verifyVars, llmVars,
                tierVars, guardVars, storeVars, resolveVars, pipeVars,
                entryVars, rateVars, fanVars, keysVars, trustVars, histVars,
                threadVars>>
verifyFrame == <<chatVars, dispVars, cacheVars, fpVars, scoreVars, llmVars,
                 tierVars, guardVars, storeVars, resolveVars, pipeVars,
                 entryVars, rateVars, fanVars, keysVars, trustVars,
                 histVars, threadVars>>
llmFrame == <<chatVars, dispVars, cacheVars, fpVars, scoreVars, verifyVars,
              tierVars, guardVars, storeVars, resolveVars, pipeVars,
              entryVars, rateVars, fanVars, keysVars, trustVars, histVars,
              threadVars>>
tierFrame == <<chatVars, dispVars, cacheVars, fpVars, scoreVars, verifyVars,
               guardVars, storeVars, resolveVars, pipeVars, entryVars,
               rateVars, fanVars, keysVars, trustVars, histVars, threadVars>>
guardFrame == <<chatVars, dispVars, cacheVars, fpVars, scoreVars,
                verifyVars, llmVars, tierVars, storeVars, resolveVars,
                pipeVars, entryVars, rateVars, fanVars, keysVars, trustVars,
                histVars, threadVars>>
storeFrame == <<chatVars, dispVars, cacheVars, fpVars, scoreVars,
                verifyVars, llmVars, tierVars, guardVars, resolveVars,
                pipeVars, entryVars, rateVars, fanVars, keysVars, trustVars,
                histVars, threadVars>>
resolveFrame == <<chatVars, dispVars, cacheVars, fpVars, scoreVars,
                  verifyVars, llmVars, tierVars, guardVars, storeVars,
                  pipeVars, entryVars, rateVars, fanVars, keysVars,
                  trustVars, histVars, threadVars>>
pipeFrame == <<chatVars, dispVars, cacheVars, fpVars, scoreVars, verifyVars,
               llmVars, tierVars, guardVars, storeVars, resolveVars,
               entryVars, rateVars, fanVars, keysVars, trustVars, histVars,
               threadVars>>
entryFrame == <<chatVars, dispVars, cacheVars, fpVars, scoreVars,
                verifyVars, llmVars, tierVars, guardVars, storeVars,
                resolveVars, pipeVars, rateVars, fanVars, keysVars,
                trustVars, histVars, threadVars>>
rateFrame == <<chatVars, dispVars, cacheVars, fpVars, scoreVars, verifyVars,
               llmVars, tierVars, guardVars, storeVars, resolveVars,
               pipeVars, entryVars, fanVars, keysVars, trustVars, histVars,
               threadVars>>
fanFrame == <<chatVars, dispVars, cacheVars, fpVars, scoreVars, verifyVars,
              llmVars, tierVars, guardVars, storeVars, resolveVars,
              pipeVars, entryVars, rateVars, keysVars, trustVars, histVars,
              threadVars>>
keysFrame == <<chatVars, dispVars, cacheVars, fpVars, scoreVars, verifyVars,
               llmVars, tierVars, guardVars, storeVars, resolveVars,
               pipeVars, entryVars, rateVars, fanVars, trustVars, histVars,
               threadVars>>
trustFrame == <<chatVars, dispVars, cacheVars, fpVars, scoreVars,
                verifyVars, llmVars, tierVars, guardVars, storeVars,
                resolveVars, pipeVars, entryVars, rateVars, fanVars,
                keysVars, histVars, threadVars>>
histFrame == <<chatVars, dispVars, cacheVars, fpVars, scoreVars, verifyVars,
               llmVars, tierVars, guardVars, storeVars, resolveVars,
               pipeVars, entryVars, rateVars, fanVars, keysVars, trustVars,
               threadVars>>
threadFrame == <<chatVars, dispVars, cacheVars, fpVars, scoreVars,
                 verifyVars, llmVars, tierVars, guardVars, storeVars,
                 resolveVars, pipeVars, entryVars, rateVars, fanVars,
                 keysVars, trustVars, histVars>>

None == "None"

\* ---------------------------------------------------------------- bounds
MaxClock == 7200
MaxArrivals == 4

\* ------------------------------------------------------ program constants
BLOCK_DURATION_SECONDS == 3600
MAX_WARNINGS == 3
MAX_HISTORY == 30

\* The clock advances in half block durations, so that a block is met before,
\* exactly at and after its expiry.
ClockStep == BLOCK_DURATION_SECONDS \div 2

Min(a, b) == IF a <= b THEN a ELSE b
Max(a, b) == IF a >= b THEN a ELSE b

\* ------------------------------------------------------------ session store
\* Sessions are independent entries of _sessions; one is followed.
SessionIds == {"s1"}
Slots == {1, 2}

StateInfos == {[code |-> "MH", name |-> "Maharashtra"]}

\* No state: a lookup that found none (or raised), a query naming none.
NoInfo == [code |-> None, name |-> None]

\* UserSession(): the dataclass defaults.  A session that was never referenced
\* is indistinguishable from a freshly created one (_get_or_create).
UserSession ==
    [state_code |-> None, state_name |-> None, occupation |-> None,
     warnings |-> 0, blocked_until |-> 0, chat_history |-> <<>>]

ProfileKeys == {"state_code", "state_name", "occupation"}

\* get_profile: only the known fields (those that are truthy: neither None nor
\* the empty string), state_name under the key "state".
get_profile(sess) ==
    LET known == {k \in ProfileKeys : sess[k] # None /\ sess[k] # ""}
        keyOf(k) == IF k = "state_name" THEN "state" ELSE k
    IN  [p \in {keyOf(k) : k \in known} |->
            IF p = "state" THEN sess.state_name ELSE sess[p]]

\* update_profile: merge the non-None values of keys the session has.
update_profile(sess, updates) ==
    [k \in DOMAIN sess |->
        IF k \in DOMAIN updates /\ updates[k] # None THEN updates[k] ELSE sess[k]]

\* The looked-up state replaces a known one.
set_state_from_ip_overwrites(sess, state_info) ==
    IF state_info = NoInfo THEN sess
    ELSE [sess EXCEPT !.state_code = state_info.code,
                      !.state_name = state_info.name]

\* set_state_from_ip: only when the lookup gave a state and none is known.
set_state_from_ip(sess, state_info) ==
    IF state_info = NoInfo THEN sess
    ELSE IF sess.state_code = None
         THEN [sess EXCEPT !.state_code = state_info.code,
                           !.state_name = state_info.name]
         ELSE sess

Last(s, n) == IF Len(s) <= n THEN s ELSE SubSeq(s, Len(s) - n + 1, Len(s))

\* The history is cut to its oldest 30 entries.
append_chat_keeps_oldest(sess, role, content) ==
    [sess EXCEPT !.chat_history =
        SubSeq(Append(sess.chat_history, [role |-> role, content |-> content]),
               1, Min(Len(sess.chat_history) + 1, MAX_HISTORY))]

\* append_chat: append, then keep the newest 30.
append_chat(sess, role, content) ==
    [sess EXCEPT !.chat_history =
        Last(Append(sess.chat_history, [role |-> role, content |-> content]),
             MAX_HISTORY)]

\* A plausible slip in is_blocked: the expired block is cleared but the warning
\* counter is kept.
is_blocked_keeps_warnings(sess, t) ==
    IF sess.blocked_until = 0
    THEN [blocked |-> FALSE, remaining |-> 0, session |-> sess]
    ELSE IF sess.blocked_until - t <= 0
         THEN [blocked |-> FALSE, remaining |-> 0,
               session |-> [sess EXCEPT !.blocked_until = 0]]
         ELSE [blocked |-> TRUE, remaining |-> sess.blocked_until - t,
               session |-> sess]

\* is_blocked: (blocked, seconds remaining) and the session as it leaves it.
is_blocked(sess, t) ==
    IF sess.blocked_until = 0
    THEN [blocked |-> FALSE, remaining |-> 0, session |-> sess]
    ELSE IF sess.blocked_until - t <= 0
         THEN [blocked |-> FALSE, remaining |-> 0,
               session |-> [sess EXCEPT !.blocked_until = 0, !.warnings = 0]]
         ELSE [blocked |-> TRUE, remaining |-> sess.blocked_until - t,
               session |-> sess]

\* A plausible slip in issue_warning: the block is set only past MAX_WARNINGS.
issue_warning_late(sess, t) ==
    LET warning_num == sess.warnings + 1
    IN  IF warning_num > MAX_WARNINGS
        THEN [warning_num |-> warning_num, now_blocked |-> TRUE,
              session |-> [sess EXCEPT !.warnings = warning_num,
                                       !.blocked_until = t + BLOCK_DURATION_SECONDS]]
        ELSE [warning_num |-> warning_num, now_blocked |-> FALSE,
              session |-> [sess EXCEPT !.warnings = warning_num]]

\* issue_warning: (warning number, now blocked) and the session as it leaves it.
issue_warning(sess, t) ==
    LET warning_num == sess.warnings + 1
    IN  IF warning_num >= MAX_WARNINGS
        THEN [warning_num |-> warning_num, now_blocked |-> TRUE,
              session |-> [sess EXCEPT !.warnings = warning_num,
                                       !.blocked_until = t + BLOCK_DURATION_SECONDS]]
        ELSE [warning_num |-> warning_num, now_blocked |-> FALSE,
              session |-> [sess EXCEPT !.warnings = warning_num]]

\* ---------------------------------------------------------------- topic guard
\* A query as the guard and the pipeline see it: which vocabularies and
\* patterns it matches, its token count, and what the pipeline would find in it.
ChatQueries ==
    { [id |-> "abuse", hard |-> TRUE, on_kw |-> TRUE, on_pat |-> FALSE,
       tokens |-> 6, off_kw |-> FALSE, greeting |-> FALSE,
       occupation |-> "farmer", state |-> NoInfo],
      [id |-> "cricket", hard |-> FALSE, on_kw |-> FALSE, on_pat |-> FALSE,
       tokens |-> 6, off_kw |-> TRUE, greeting |-> FALSE,
       occupation |-> None, state |-> NoInfo],
      [id |-> "farmer", hard |-> FALSE, on_kw |-> TRUE, on_pat |-> FALSE,
       tokens |-> 9, off_kw |-> FALSE, greeting |-> FALSE,
       occupation |-> "farmer", state |-> NoInfo],
      [id |-> "hello", hard |-> FALSE, on_kw |-> FALSE, on_pat |-> FALSE,
       tokens |-> 1, off_kw |-> FALSE, greeting |-> TRUE,
       occupation |-> None, state |-> NoInfo] }

\* The on-topic keyword check comes before the hard block check.
classify_keywords_first(q) ==
    IF q.on_kw THEN "ALLOWED"
    ELSE IF q.hard THEN "BLOCK"
    ELSE IF q.on_pat THEN "ALLOWED"
    ELSE IF q.tokens <= 4 THEN "ALLOWED"
    ELSE IF q.off_kw THEN "WARN"
    ELSE "ALLOWED"

\* The off-topic keyword check comes before the check of short queries.
classify_off_topic_before_short(q) ==
    IF q.hard THEN "BLOCK"
    ELSE IF q.on_kw THEN "ALLOWED"
    ELSE IF q.on_pat THEN "ALLOWED"
    ELSE IF q.off_kw THEN "WARN"
    ELSE IF q.tokens <= 4 THEN "ALLOWED"
    ELSE "ALLOWED"

\* TopicGuard.classify: the six checks in their order.
classify(q) ==
    IF q.hard THEN "BLOCK"
    ELSE IF q.on_kw THEN "ALLOWED"
    ELSE IF q.on_pat THEN "ALLOWED"
    ELSE IF q.tokens <= 4 THEN "ALLOWED"
    ELSE IF q.off_kw THEN "WARN"
    ELSE "ALLOWED"

\* ------------------------------------------------------------------ chat_text
\* The record of an is_blocked call: its result and the session it left.
NoIb == [called |-> FALSE, pre |-> UserSession, blocked |-> FALSE,
         remaining |-> 0, post |-> UserSession]

IbOf(sess, ib) ==
    [called |-> TRUE, pre |-> sess, blocked |-> ib.blocked,
     remaining |-> ib.remaining, post |-> ib.session]

\* A plausible slip in chat_text: the block status check is left out, so only
\* the verdict decides.
Moderate_no_block_check(sess, q, t) ==
    LET verdict == classify(q)
        iw == issue_warning(sess, t)
    IN  IF verdict = "BLOCK"
        THEN [decision |-> "hard_block", is_blocked |-> TRUE,
              warning_count |-> 0, session |-> sess, ib |-> NoIb]
        ELSE IF verdict = "WARN"
        THEN [decision |-> IF iw.now_blocked THEN "warn_block" ELSE "warned",
              is_blocked |-> iw.now_blocked,
              warning_count |-> iw.warning_num, session |-> iw.session,
              ib |-> NoIb]
        ELSE [decision |-> "pipeline", is_blocked |-> FALSE,
              warning_count |-> 0, session |-> sess, ib |-> NoIb]

\* A plausible slip in chat_text: the warning is issued before the block
\* status is checked.
Moderate_counts_while_blocked(sess, q, t) ==
    LET verdict == classify(q)
        iw == issue_warning(sess, t)
        ib == is_blocked(IF verdict = "WARN" THEN iw.session ELSE sess, t)
    IN  IF verdict = "BLOCK"
        THEN [decision |-> "hard_block", is_blocked |-> TRUE,
              warning_count |-> 0, session |-> sess, ib |-> NoIb]
        ELSE IF ib.blocked
        THEN [decision |-> "session_block", is_blocked |-> TRUE,
              warning_count |-> 0, session |-> ib.session, ib |-> IbOf(sess, ib)]
        ELSE IF verdict = "WARN"
        THEN [decision |-> "warned", is_blocked |-> FALSE,
              warning_count |-> iw.warning_num, session |-> ib.session,
              ib |-> IbOf(sess, ib)]
        ELSE [decision |-> "pipeline", is_blocked |-> FALSE,
              warning_count |-> 0, session |-> ib.session, ib |-> IbOf(sess, ib)]

\* A plausible slip in chat_text: a query that passes moderation clears the
\* warnings of its session.
Moderate_allowed_forgives(sess, q, t) ==
    LET verdict == classify(q)
        ib == is_blocked(sess, t)
        iw == issue_warning(ib.session, t)
    IN  IF verdict = "BLOCK"
        THEN [decision |-> "hard_block", is_blocked |-> TRUE,
              warning_count |-> 0, session |-> sess, ib |-> NoIb]
        ELSE IF ib.blocked
        THEN [decision |-> "session_block", is_blocked |-> TRUE,
              warning_count |-> 0, session |-> ib.session, ib |-> IbOf(sess, ib)]
        ELSE IF verdict = "WARN"
        THEN [decision |-> IF iw.now_blocked THEN "warn_block" ELSE "warned",
              is_blocked |-> iw.now_blocked,
              warning_count |-> iw.warning_num, session |-> iw.session,
              ib |-> IbOf(sess, ib)]
        ELSE [decision |-> "pipeline", is_blocked |-> FALSE,
              warning_count |-> 0,
              session |-> [ib.session EXCEPT !.warnings = 0],
              ib |-> IbOf(sess, ib)]

\* chat_text, steps 1 to 3: topic guard, block status check, off-topic warning.
\* The decision, the ChatResponse flags (warning_count 0: not set) and the
\* session as the steps leave it; ib records the is_blocked call, if any.
Moderate(sess, q, t) ==
    LET verdict == classify(q)
        ib == is_blocked(sess, t)
        iw == issue_warning(ib.session, t)
    IN  IF verdict = "BLOCK"
        THEN [decision |-> "hard_block", is_blocked |-> TRUE,
              warning_count |-> 0, session |-> sess, ib |-> NoIb]
        ELSE IF ib.blocked
        THEN [decision |-> "session_block", is_blocked |-> TRUE,
              warning_count |-> 0, session |-> ib.session, ib |-> IbOf(sess, ib)]
        ELSE IF verdict = "WARN"
        THEN [decision |-> IF iw.now_blocked THEN "warn_block" ELSE "warned",
              is_blocked |-> iw.now_blocked,
              warning_count |-> iw.warning_num, session |-> iw.session,
              ib |-> IbOf(sess, ib)]
        ELSE [decision |-> "pipeline", is_blocked |-> FALSE,
              warning_count |-> 0, session |-> ib.session, ib |-> IbOf(sess, ib)]

\* APIAggregator.query up to its first suspension: greeting fast path, state
\* and profile mining into the session, cache lookup (its outcome is `hit`).
AggHead(sess, q, hit) ==
    IF q.greeting
    THEN [session |-> sess, pc |-> "greeting_llm",
          cache |-> FALSE, providers |-> FALSE, llm |-> TRUE]
    ELSE
    LET profile == get_profile(sess)
        s1 == IF q.state # NoInfo /\ "state" \notin DOMAIN profile
              THEN update_profile(sess, [state_code |-> q.state.code,
                                         state_name |-> q.state.name])
              ELSE sess
        s2 == IF q.occupation # None
              THEN update_profile(s1, [occupation |-> q.occupation])
              ELSE s1
    IN  IF hit
        THEN [session |-> append_chat(append_chat(s2, "user", q.id),
                                      "assistant", "cached"),
              pc |-> "done", cache |-> TRUE, providers |-> FALSE, llm |-> FALSE]
        ELSE [session |-> s2, pc |-> "dispatch",
              cache |-> TRUE, providers |-> TRUE, llm |-> FALSE]

\* A coroutine's frame: where it is suspended, and its session and query.
IdleReq == [pc |-> "idle", session |-> None, query |-> None]

\* What one step did to a request.  kind: "moderated" (steps 1 to 3 ran),
\* "returned" (a suspended pipeline finished).  response: whether the request
\* ended in this step; reply, is_blocked and warning_count are the response's.
\* agg, cache, providers, llm: whether the request has called
\* APIAggregator.query, the research cache, the providers, a language model.
\* pre: the session as the step found it.  warn_no (the query is the n-th
\* counted WARN query, else 0) and in_block (the query came less than 3600 s
\* after a third WARN query) are observations, not program state.
NoEv == [kind |-> None, slot |-> 0, session |-> None, query |-> None,
         verdict |-> None, decision |-> None, response |-> FALSE,
         reply |-> None, is_blocked |-> FALSE, warning_count |-> 0,
         ib |-> NoIb, agg |-> FALSE, cache |-> FALSE, providers |-> FALSE,
         llm |-> FALSE, pre |-> UserSession, warn_no |-> 0, in_block |-> FALSE]

\* The observer's count of one moderated query: WARN queries count from the
\* first one; the third is remembered with its time; queries within 3600 s of
\* it do not count; the first query after 3600 s that is not a BLOCK query
\* (those bypass the block check) starts the count again.
GhostAfter(sid, verdict) ==
    LET lapsed == /\ verdict # "BLOCK"
                  /\ thirdWarnAt[sid] >= 0
                  /\ now >= thirdWarnAt[sid] + BLOCK_DURATION_SECONDS
        in_block == /\ thirdWarnAt[sid] >= 0
                    /\ now < thirdWarnAt[sid] + BLOCK_DURATION_SECONDS
        base == IF lapsed THEN 0 ELSE warnsGiven[sid]
        counted == verdict = "WARN" /\ ~in_block
        cnt == IF counted THEN base + 1 ELSE base
        at == IF counted /\ cnt = MAX_WARNINGS THEN now
              ELSE IF lapsed THEN -1 ELSE thirdWarnAt[sid]
    IN  [count |-> cnt, at |-> at, in_block |-> in_block,
         warn_no |-> IF counted THEN cnt ELSE 0]

\* chat_text from the resolution of the state to the first suspension of the
\* pipeline (or to the response): no await lies in between.
ChatTextStep(r, sid, q, user_state, state_info, hit) ==
    LET sess0 == sessions[sid]
        sess1 == IF user_state # None THEN sess0
                 ELSE set_state_from_ip(sess0, state_info)
        m == Moderate(sess1, q, now)
        head == AggHead(m.session, q, hit)
        g == GhostAfter(sid, classify(q))
        piped == m.decision = "pipeline"
        ended == ~piped \/ head.pc = "done"
    IN  /\ sessions' = [sessions EXCEPT ![sid] =
                            IF piped THEN head.session ELSE m.session]
        /\ reqs' = [reqs EXCEPT ![r] =
              IF ended THEN IdleReq
              ELSE [pc |-> head.pc, session |-> sid, query |-> q.id]]
        /\ ev' = [kind |-> "moderated", slot |-> r, session |-> sid,
                  query |-> q.id, verdict |-> classify(q),
                  decision |-> m.decision, response |-> ended,
                  reply |-> IF ~piped THEN m.decision
                            ELSE IF ended THEN "answer" ELSE None,
                  is_blocked |-> m.is_blocked,
                  warning_count |-> m.warning_count, ib |-> m.ib,
                  agg |-> piped, cache |-> piped /\ head.cache,
                  providers |-> piped /\ head.providers,
                  llm |-> piped /\ head.llm,
                  pre |-> sess0, warn_no |-> g.warn_no,
                  in_block |-> g.in_block]
        /\ warnsGiven' = [warnsGiven EXCEPT ![sid] = g.count]
        /\ thirdWarnAt' = [thirdWarnAt EXCEPT ![sid] = g.at]

\* A request with user_state set skips the location lookup and runs straight
\* into the topic guard.
ArriveWithState(r, sid, q) ==
    /\ reqs[r].pc = "idle"
    /\ arrivals < MaxArrivals
    /\ arrivals' = arrivals + 1
    /\ \E hit \in BOOLEAN : ChatTextStep(r, sid, q, "TN", NoInfo, hit)
    /\ UNCHANGED <<now, chatFrame>>

\* A request without user_state suspends in get_state_from_ip.
ArriveLocating(r, sid, q) ==
    /\ reqs[r].pc = "idle"
    /\ arrivals < MaxArrivals
    /\ arrivals' = arrivals + 1
    /\ reqs' = [reqs EXCEPT ![r] =
                    [pc |-> "locating", session |-> sid, query |-> q.id]]
    /\ ev' = NoEv
    /\ UNCHANGED <<now, sessions, warnsGiven, thirdWarnAt>>
    /\ UNCHANGED chatFrame

QueryOf(id) == CHOOSE q \in ChatQueries : q.id = id

\* The lookup returns a state, or nothing (also when it raised).
LocationReturns(r, state_info) ==
    /\ reqs[r].pc = "locating"
    /\ \E hit \in BOOLEAN :
          ChatTextStep(r, reqs[r].session, QueryOf(reqs[r].query), None,
                       state_info, hit)
    /\ UNCHANGED <<now, arrivals, chatFrame>>

\* The response a suspended pipeline ends with.
Returned(r, reply) ==
    [NoEv EXCEPT !.kind = "returned", !.slot = r, !.session = reqs[r].session,
                 !.query = reqs[r].query,
                 !.verdict = classify(QueryOf(reqs[r].query)),
                 !.decision = "pipeline", !.response = TRUE, !.reply = reply,
                 !.agg = TRUE, !.llm = TRUE,
                 !.cache = ~QueryOf(reqs[r].query).greeting,
                 !.providers = ~QueryOf(reqs[r].query).greeting]

\* The suspended pipeline finishes.  "answer": the dispatch, the synthesis (or
\* the greeting reply) succeeded, and on the research path the exchange is
\* appended to the history.  Otherwise APIAggregator.query raised and chat_text
\* answers from its direct language-model tier, or with the static message.
\* The awaits in between touch no session and are not told apart here.
PipelineReturns(r, reply) ==
    /\ reqs[r].pc \in {"dispatch", "greeting_llm"}
    /\ sessions' = [sessions EXCEPT ![reqs[r].session] =
          IF reply = "answer" /\ reqs[r].pc = "dispatch"
          THEN append_chat(append_chat(@, "user", reqs[r].query),
                           "assistant", "answer")
          ELSE @]
    /\ reqs' = [reqs EXCEPT ![r] = IdleReq]
    /\ ev' = Returned(r, reply)
    /\ UNCHANGED <<now, warnsGiven, thirdWarnAt, arrivals>>
    /\ UNCHANGED chatFrame

Tick(d) ==
    /\ now + d <= MaxClock
    /\ now' = now + d
    /\ ev' = NoEv
    /\ UNCHANGED <<sessions, reqs, warnsGiven, thirdWarnAt, arrivals>>
    /\ UNCHANGED chatFrame

Next ==
    \/ \E r \in Slots, sid \in SessionIds, q \in ChatQueries : ArriveWithState(r, sid, q)
    \/ \E r \in Slots, sid \in SessionIds, q \in ChatQueries : ArriveLocating(r, sid, q)
    \/ \E r \in Slots, info \in StateInfos \cup {NoInfo} : LocationReturns(r, info)
    \/ \E r \in Slots, reply \in {"answer", "llm_fallback", "static"} :
            PipelineReturns(r, reply)
    \/ Tick(ClockStep)

\* ------------------------------------------------------------- dispatcher
\* APIAggregator.query from the creation of the provider tasks to the merged
\* collections.  The providers come in the classifier's order; those selected
\* are the available ones.
ProviderOrder == <<"tavily", "ddg", "wikipedia">>

\* asyncio.wait(..., timeout=28.0)
WAIT_TIMEOUT == 28

\* _expand_queries gives the base query and at least one more.
MinSubQueries == 2
MaxSubQueries == 2
MaxWaitTicks == 4

\* Time is observed at the start, half way, at the deadline and beyond.
DispatchStep == WAIT_TIMEOUT \div 2

\* f"{key}_{q_idx}"
TaskKey(provider, q_idx) == [provider |-> provider, q_idx |-> q_idx]

\* key.split("_")[0].upper()
ProviderLabel(key) ==
    CASE key.provider = "tavily" -> "TAVILY"
      [] key.provider = "ddg" -> "DDG"
      [] key.provider = "wikipedia" -> "WIKIPEDIA"

RECURSIVE SelectSeq2(_, _)
\* The subsequence of s whose elements are in the set keep.
SelectSeq2(s, keep) ==
    IF s = <<>> THEN <<>>
    ELSE IF Head(s) \in keep THEN <<Head(s)>> \o SelectSeq2(Tail(s), keep)
    ELSE SelectSeq2(Tail(s), keep)

\* The tasks dict: the primary sub-query goes to every selected provider, each
\* further one to tavily, else to ddg, else nowhere.
BuildTasks(selected, nsub) ==
    LET sel == SelectSeq2(ProviderOrder, selected)
        first == [i \in 1..Len(sel) |->
                    [key |-> TaskKey(sel[i], 0), status |-> "pending"]]
        extra == IF "tavily" \in selected
                 THEN [i \in 1..(nsub - 1) |->
                         [key |-> TaskKey("tavily", i), status |-> "pending"]]
                 ELSE IF "ddg" \in selected
                 THEN [i \in 1..(nsub - 1) |->
                         [key |-> TaskKey("ddg", i), status |-> "pending"]]
                 ELSE <<>>
    IN  first \o extra

\* What a provider's search finds for a task: SearchResults (told apart by
\* task and position), images, a direct answer or none.
TaskResults(key) ==
    [k \in 1..(IF key.provider = "tavily" THEN 2 ELSE 1) |->
        [task |-> key, pos |-> k]]

TaskImages(key) == IF key.provider = "ddg" THEN <<>> ELSE <<[image |-> key]>>

TaskAnswer(key) ==
    CASE key.provider = "tavily" -> "direct answer"
      [] key.provider = "ddg" -> None
      [] key.provider = "wikipedia" -> ""

\* The ProviderResponse of a finished task.  "ok": success with what was
\* found; "fail": ProviderResponse(success=False, error=...) as the providers
\* build it; "fail_partial": success=False with collections filled, which the
\* dataclass allows.
ProviderResponse(key, outcome) ==
    [success |-> outcome = "ok",
     results |-> IF outcome = "fail" THEN <<>> ELSE TaskResults(key),
     images |-> IF outcome = "fail" THEN <<>> ELSE TaskImages(key),
     answer |-> IF outcome = "fail" THEN None ELSE TaskAnswer(key)]

Finished == {"ok", "fail", "fail_partial"}

\* A plausible slip in the wait: no timeout, the wait ends only when every
\* task has.
WaitDue_no_timeout(ts, clock) ==
    \A i \in 1..Len(ts) : ts[i].status # "pending"

\* asyncio.wait(tasks, timeout=28.0, return_when=ALL_COMPLETED) is due when
\* every task is done or the timeout has run out.
WaitDue(ts, clock) ==
    \/ \A i \in 1..Len(ts) : ts[i].status # "pending"
    \/ clock >= WAIT_TIMEOUT

\* for task in pending: task.cancel() -- the cancellation is requested; the
\* task is done only once the event loop has run it again.
CancelPending(ts) ==
    [i \in 1..Len(ts) |->
        IF ts[i].status = "pending" THEN [ts[i] EXCEPT !.status = "cancelling"]
        ELSE ts[i]]

RECURSIVE Collect(_)
\* The collection loop over tasks.items(): a task that is done and not
\* cancelled gives its result; task.result() re-raises the exception of a task
\* that raised, which the except clause swallows; a task not done is skipped.
Collect(ts) ==
    IF ts = <<>> THEN [responses |-> <<>>, error |-> FALSE]
    ELSE LET rest == Collect(Tail(ts))
             mine == IF Head(ts).status \in Finished
                     THEN <<[key |-> Head(ts).key,
                             resp |-> ProviderResponse(Head(ts).key, Head(ts).status)]>>
                     ELSE <<>>
         IN  [responses |-> mine \o rest.responses, error |-> rest.error]

\* f"[{provider_label}]: {resp.answer}"
LabelledAnswer(key, answer) == <<"[", ProviderLabel(key), "]: ", answer>>

NoMerge == [all_results |-> <<>>, all_images |-> <<>>, ai_answers |-> <<>>]

RECURSIVE Merge_ignores_success(_)
\* A plausible slip in the merge: the success flag is not looked at.
Merge_ignores_success(rs) ==
    IF rs = <<>> THEN NoMerge
    ELSE LET rest == Merge_ignores_success(Tail(rs))
             key == Head(rs).key
             resp == Head(rs).resp
         IN  [all_results |-> resp.results \o rest.all_results,
              all_images |-> resp.images \o rest.all_images,
              ai_answers |->
                 (IF resp.answer \notin {None, ""}
                  THEN <<LabelledAnswer(key, resp.answer)>> ELSE <<>>)
                 \o rest.ai_answers]

RECURSIVE Merge(_)
\* The merge loop over responses.items(): only a response with success set
\* extends the collections; its answer is added when it is not empty.
Merge(rs) ==
    IF rs = <<>> THEN NoMerge
    ELSE LET rest == Merge(Tail(rs))
             key == Head(rs).key
             resp == Head(rs).resp
         IN  IF resp.success
             THEN [all_results |-> resp.results \o rest.all_results,
                   all_images |-> resp.images \o rest.all_images,
                   ai_answers |->
                      (IF resp.answer \notin {None, ""}
                       THEN <<LabelledAnswer(key, resp.answer)>> ELSE <<>>)
                      \o rest.ai_answers]
             ELSE rest

\* The tasks are created and the coroutine suspends in asyncio.wait, which
\* raises ValueError at once when there is no task.
Dispatch(selected, nsub) ==
    /\ dpc = "idle"
    /\ tasks' = BuildTasks(selected, nsub)
    /\ dpc' = IF tasks' = <<>> THEN "raised" ELSE "waiting"
    /\ UNCHANGED <<dclock, responses, merged, returned_at, dispFrame>>

\* A provider task ends: with a response, or with an exception.
TaskEnds(i, outcome) ==
    /\ dpc = "waiting"
    /\ i \in 1..Len(tasks)
    /\ tasks[i].status = "pending"
    /\ tasks' = [tasks EXCEPT ![i].status = outcome]
    /\ UNCHANGED <<dclock, dpc, responses, merged, returned_at, dispFrame>>

\* asyncio.wait returns; up to the merged collections the coroutine does not
\* suspend: pending tasks are cancelled, the responses collected and merged.
WaitReturns ==
    /\ dpc = "waiting"
    /\ WaitDue(tasks, dclock)
    /\ tasks' = CancelPending(tasks)
    /\ LET c == Collect(tasks')
       IN  /\ responses' = c.responses
           /\ merged' = IF c.error THEN <<>> ELSE Merge(c.responses)
           /\ dpc' = IF c.error THEN "raised" ELSE "merged"
    /\ returned_at' = dclock
    /\ UNCHANGED <<dclock, dispFrame>>

\* The event loop runs a task whose cancellation was requested.
CancelTakesEffect(i) ==
    /\ i \in 1..Len(tasks)
    /\ tasks[i].status = "cancelling"
    /\ tasks' = [tasks EXCEPT ![i].status = "cancelled"]
    /\ UNCHANGED <<dclock, dpc, responses, merged, returned_at, dispFrame>>

\* Time passes; the event loop runs a due wait before it lets time pass.
DispatchTick ==
    /\ dpc \in {"waiting", "merged"}
    /\ dpc = "waiting" => ~WaitDue(tasks, dclock)
    /\ dclock + DispatchStep <= MaxWaitTicks * DispatchStep
    /\ dclock' = dclock + DispatchStep
    /\ UNCHANGED <<tasks, dpc, responses, merged, returned_at, dispFrame>>

NextDispatch ==
    \/ \E selected \in SUBSET {ProviderOrder[i] : i \in 1..Len(ProviderOrder)},
          nsub \in MinSubQueries..MaxSubQueries : Dispatch(selected, nsub)
    \/ \E i \in 1..(Len(ProviderOrder) + MaxSubQueries),
          outcome \in Finished \cup {"raised"} : TaskEnds(i, outcome)
    \/ WaitReturns
    \/ \E i \in 1..(Len(ProviderOrder) + MaxSubQueries) : CancelTakesEffect(i)
    \/ DispatchTick


\* ----------------------------------------------------------- research cache
\* Text is a sequence of characters; NoText is Python's None where a string
\* is optional.
NoText == <<"None">>

\* settings.research_cache_ttl_minutes
research_cache_ttl_minutes == 180

\* self.ttl_seconds = max(1, settings.research_cache_ttl_minutes) * 60
ttl_seconds == Max(1, research_cache_ttl_minutes) * 60

MaxCacheTicks == 3
MaxPuts == 2

\* The clock is read at the put, half a TTL later, a TTL later, and beyond.
CacheStep == ttl_seconds \div 2

LowerChar(c) ==
    CASE c = "P" -> "p" [] c = "K" -> "k" [] c = "E" -> "e"
      [] c = "N" -> "n" [] c = "T" -> "t" [] OTHER -> c

UpperChar(c) ==
    CASE c = "p" -> "P" [] c = "k" -> "K" [] c = "e" -> "E"
      [] c = "n" -> "N" [] c = "t" -> "T" [] OTHER -> c

\* str.lower(), str.upper()
Lower(s) == [i \in 1..Len(s) |-> LowerChar(s[i])]
Upper(s) == [i \in 1..Len(s) |-> UpperChar(s[i])]

RECURSIVE LStrip(_)
LStrip(s) == IF s # <<>> /\ Head(s) = " " THEN LStrip(Tail(s)) ELSE s

RECURSIVE RStrip(_)
RStrip(s) ==
    IF s # <<>> /\ s[Len(s)] = " " THEN RStrip(SubSeq(s, 1, Len(s) - 1)) ELSE s

\* str.strip()
Strip(s) == RStrip(LStrip(s))

RECURSIVE Split(_, _)
\* str.split(): the maximal runs without a blank; word is the run being read.
Split(s, word) ==
    IF s = <<>> THEN (IF word = <<>> THEN <<>> ELSE <<word>>)
    ELSE IF Head(s) = " "
         THEN (IF word = <<>> THEN <<>> ELSE <<word>>) \o Split(Tail(s), <<>>)
         ELSE Split(Tail(s), Append(word, Head(s)))

RECURSIVE Join(_, _)
\* sep.join(words)
Join(sep, words) ==
    IF words = <<>> THEN <<>>
    ELSE IF Len(words) = 1 THEN Head(words)
    ELSE Head(words) \o sep \o Join(sep, Tail(words))

\* x or default: None and the empty string are falsy.
OrElse(x, default) == IF x = NoText \/ x = <<>> THEN default ELSE x

\* _make_key: the key material; the SHA-256 digest of it is taken to be
\* injective, so the material stands for the digest.
_make_key(query, language, intent, state_code, profile_fingerprint) ==
    LET normalized_query == Join(<<" ">>, Split(Strip(Lower(OrElse(query, <<>>))), <<>>))
        normalized_lang == Strip(Lower(OrElse(language, <<"e", "n">>)))
        normalized_intent == Strip(OrElse(intent, <<"u", "n", "k", "n", "o", "w", "n">>))
        normalized_state == Strip(Upper(OrElse(state_code, <<>>)))
        normalized_profile == Strip(OrElse(profile_fingerprint, <<>>))
    IN  Join(<<"|">>, <<normalized_query, normalized_lang, normalized_intent,
                        normalized_state, normalized_profile>>)

KeyOf(inp) ==
    _make_key(inp.query, inp.language, inp.intent, inp.state_code,
             inp.profile_fingerprint)

\* Key inputs: two that differ in case, blanks and None against the default
\* and so make the same key, and one that makes another key.
CacheInputs ==
    { [query |-> <<"p", " ", "k">>, language |-> <<"e", "n">>,
       intent |-> <<"s">>, state_code |-> <<"T", "N">>,
       profile_fingerprint |-> <<>>],
      [query |-> <<" ", "P", " ", " ", "K">>, language |-> NoText,
       intent |-> <<"s">>, state_code |-> <<"t", "n">>,
       profile_fingerprint |-> NoText],
      [query |-> <<"k">>, language |-> <<"E", "N">>,
       intent |-> NoText, state_code |-> NoText,
       profile_fingerprint |-> <<"f">>] }

CacheKeys == {KeyOf(inp) : inp \in CacheInputs}

\* Python values, tagged with their type.  Numbers are held in thousandths.
PyStr(x) == [kind |-> "str", val |-> x]
PyInt(n) == [kind |-> "int", val |-> n]
PyFloat(n) == [kind |-> "float", val |-> n]
PyBool(b) == [kind |-> "bool", val |-> b]
PyNone == [kind |-> "None", val |-> 0]
PyList(xs) == [kind |-> "list", val |-> xs]
PyTuple(xs) == [kind |-> "tuple", val |-> xs]
PyDict(d) == [kind |-> "dict", val |-> d]

\* The payloads the pipeline stores: answer, sources (dicts with a float
\* score), state_detected (a dict or None), cache_hit.
CachePayloads ==
    { PyDict([answer |-> PyStr("A"),
              sources |-> PyList(<<PyDict([url |-> PyStr("u1"),
                                           score |-> PyFloat(870),
                                           published_date |-> PyNone])>>),
              state_detected |-> PyNone,
              cache_hit |-> PyBool(FALSE)]),
      PyDict([answer |-> PyStr("B"),
              sources |-> PyList(<<>>),
              state_detected |-> PyDict([code |-> PyStr("TN")]),
              cache_hit |-> PyBool(FALSE)]) }

RECURSIVE json_dumps(_)
\* json.dumps: the JSON text, as its syntax tree.  Lists and tuples become
\* arrays, dicts objects, None null; an int is written without a decimal
\* point and a float with one.
json_dumps(v) ==
    CASE v.kind = "str" -> [kind |-> "string", val |-> v.val]
      [] v.kind = "int" -> [kind |-> "number", val |-> [digits |-> v.val, point |-> FALSE]]
      [] v.kind = "float" -> [kind |-> "number", val |-> [digits |-> v.val, point |-> TRUE]]
      [] v.kind = "bool" -> [kind |-> IF v.val THEN "true" ELSE "false", val |-> 0]
      [] v.kind = "None" -> [kind |-> "null", val |-> 0]
      [] v.kind \in {"list", "tuple"} ->
            [kind |-> "array", val |-> [i \in 1..Len(v.val) |-> json_dumps(v.val[i])]]
      [] v.kind = "dict" ->
            [kind |-> "object", val |-> [k \in DOMAIN v.val |-> json_dumps(v.val[k])]]

\* What json.loads raises.
JSONDecodeError == [kind |-> "JSONDecodeError", val |-> 0]
OtherError == [kind |-> "Exception", val |-> 0]

RECURSIVE json_loads(_)
\* json.loads: arrays become lists, objects dicts, null None; a number is an
\* int unless it is written with a decimal point.  A text that is no JSON
\* raises json.JSONDecodeError; a value json.loads cannot read at all (bytes
\* that are no UTF-8, a nesting beyond the recursion limit) raises another
\* exception.  The exception stands for the result.
json_loads(j) ==
    CASE j.kind = "malformed" -> JSONDecodeError
      [] j.kind = "unreadable" -> OtherError
      [] j.kind = "string" -> PyStr(j.val)
      [] j.kind = "number" -> IF j.val.point THEN PyFloat(j.val.digits)
                              ELSE PyInt(j.val.digits)
      [] j.kind = "true" -> PyBool(TRUE)
      [] j.kind = "false" -> PyBool(FALSE)
      [] j.kind = "null" -> PyNone
      [] j.kind = "array" ->
            PyList([i \in 1..Len(j.val) |-> json_loads(j.val[i])])
      [] j.kind = "object" ->
            PyDict([k \in DOMAIN j.val |-> json_loads(j.val[k])])

\* The row of a key, if the table has one (cache_key is the primary key).
RowsOf(tbl, key) == {r \in tbl : r.cache_key = key}

\* A plausible slip in put: the conflict clause renews the payload only.
put_renews_payload_only(tbl, inp, payload, t) ==
    LET key == KeyOf(inp)
    IN  IF RowsOf(tbl, key) # {}
        THEN {IF r.cache_key = key
              THEN [r EXCEPT !.payload_json = json_dumps(payload)]
              ELSE r : r \in tbl}
        ELSE tbl \cup {[cache_key |-> key, query |-> inp.query,
                        language |-> inp.language, intent |-> inp.intent,
                        state_code |-> inp.state_code,
                        payload_json |-> json_dumps(payload),
                        created_at |-> t, expires_at |-> t + ttl_seconds]}

\* put (cache enabled): INSERT ... ON CONFLICT(cache_key) DO UPDATE SET
\* payload_json, created_at, expires_at.  The table after it.
put(tbl, inp, payload, t) ==
    LET key == KeyOf(inp)
    IN  IF RowsOf(tbl, key) # {}
        THEN {IF r.cache_key = key
              THEN [r EXCEPT !.payload_json = json_dumps(payload),
                             !.created_at = t,
                             !.expires_at = t + ttl_seconds]
              ELSE r : r \in tbl}
        ELSE tbl \cup {[cache_key |-> key, query |-> inp.query,
                        language |-> inp.language, intent |-> inp.intent,
                        state_code |-> inp.state_code,
                        payload_json |-> json_dumps(payload),
                        created_at |-> t, expires_at |-> t + ttl_seconds]}

\* get (cache enabled): the payload, or None, and the table after it: a row
\* with expires_at < now is deleted, and so is one whose payload_json makes
\* json.loads raise json.JSONDecodeError.  Any other exception of json.loads
\* leaves get (the result is the exception) and the row stays.
get(tbl, inp, t) ==
    LET key == KeyOf(inp)
        rows == RowsOf(tbl, key)
        row == CHOOSE r \in rows : TRUE
    IN  IF rows = {} THEN [result |-> PyNone, table |-> tbl]
        ELSE IF row.expires_at < t
             THEN [result |-> PyNone, table |-> tbl \ rows]
        ELSE IF json_loads(row.payload_json) = JSONDecodeError
             THEN [result |-> PyNone, table |-> tbl \ rows]
             ELSE [result |-> json_loads(row.payload_json), table |-> tbl]

\* A plausible slip in purge_expired: a row that expires now goes as well.
purge_expired_inclusive(tbl, t) ==
    [count |-> Cardinality({r \in tbl : r.expires_at <= t}),
     table |-> {r \in tbl : ~(r.expires_at <= t)}]

\* purge_expired (cache enabled): the rows deleted and the table after it.
purge_expired(tbl, t) ==
    [count |-> Cardinality({r \in tbl : r.expires_at < t}),
     table |-> {r \in tbl : ~(r.expires_at < t)}]

NoRow == [cache_key |-> <<>>, query |-> <<>>, language |-> <<>>, intent |-> <<>>,
          state_code |-> <<>>, payload_json |-> json_dumps(PyNone),
          created_at |-> -1, expires_at |-> -1]

\* A cache call as seen from outside: the operation, its key and payload, what
\* it returned, the row of the key as the call found it (NoRow: none), and how
\* many rows of the key the table has after it.
NoCacheOp == [op |-> "none", key |-> <<>>, payload |-> PyNone, result |-> PyNone,
              prior |-> NoRow, rows |-> 0]

\* The latest put of a key that took place: its time and payload, and the
\* number of puts so far.
NoPut == [at |-> -1, payload |-> PyNone, count |-> 0]

PriorRow(key) ==
    IF RowsOf(table, key) = {} THEN NoRow ELSE CHOOSE r \in RowsOf(table, key) : TRUE

\* ResearchCache(): settings.research_cache_enabled decides.
CacheStart(en) ==
    /\ cacheOp.op = "none"
    /\ enabled' = en
    /\ cacheOp' = [NoCacheOp EXCEPT !.op = "init"]
    /\ UNCHANGED <<cnow, table, lastPut, cacheFrame>>

RECURSIVE PutsSoFar(_)
\* The puts that took place so far, over a set of keys.
PutsSoFar(ks) ==
    IF ks = {} THEN 0
    ELSE LET k == CHOOSE x \in ks : TRUE
         IN  lastPut[k].count + PutsSoFar(ks \ {k})

CachePut(inp, payload) ==
    /\ cacheOp.op # "none"
    /\ PutsSoFar(CacheKeys) < MaxPuts
    /\ table' = IF enabled THEN put(table, inp, payload, cnow) ELSE table
    /\ cacheOp' = [op |-> "put", key |-> KeyOf(inp), payload |-> payload,
                   result |-> PyNone, prior |-> PriorRow(KeyOf(inp)),
                   rows |-> Cardinality(RowsOf(table', KeyOf(inp)))]
    /\ lastPut' = IF enabled
                  THEN [lastPut EXCEPT ![KeyOf(inp)] =
                           [at |-> cnow, payload |-> payload, count |-> @.count + 1]]
                  ELSE lastPut
    /\ UNCHANGED <<cnow, enabled, cacheFrame>>

CacheGet(inp) ==
    /\ cacheOp.op # "none"
    /\ LET g == IF enabled THEN get(table, inp, cnow)
                ELSE [result |-> PyNone, table |-> table]
       IN  /\ table' = g.table
           /\ cacheOp' = [op |-> "get", key |-> KeyOf(inp), payload |-> PyNone,
                          result |-> g.result, prior |-> PriorRow(KeyOf(inp)),
                          rows |-> Cardinality(RowsOf(g.table, KeyOf(inp)))]
    /\ UNCHANGED <<cnow, enabled, lastPut, cacheFrame>>

CachePurge ==
    /\ cacheOp.op # "none"
    /\ table' = IF enabled THEN purge_expired(table, cnow).table ELSE table
    /\ cacheOp' = [NoCacheOp EXCEPT !.op = "purge",
                      !.result = PyInt(IF enabled THEN purge_expired(table, cnow).count
                                       ELSE 0)]
    /\ UNCHANGED <<cnow, enabled, lastPut, cacheFrame>>

CacheTick ==
    /\ cacheOp.op # "none"
    /\ cnow + CacheStep <= MaxCacheTicks * CacheStep
    /\ cnow' = cnow + CacheStep
    /\ cacheOp' = [NoCacheOp EXCEPT !.op = "tick"]
    /\ UNCHANGED <<enabled, table, lastPut, cacheFrame>>

\* Something other than put rewrites the payload_json of a stored row (the
\* database is a file that outlives the process): with a text that is no JSON,
\* or with a value json.loads cannot read.
DamageKinds == {"malformed", "unreadable"}

CacheDamage(inp, kind) ==
    /\ cacheOp.op # "none"
    /\ enabled
    /\ RowsOf(table, KeyOf(inp)) # {}
    /\ table' = {IF r.cache_key = KeyOf(inp)
                 THEN [r EXCEPT !.payload_json = [kind |-> kind, val |-> 0]]
                 ELSE r : r \in table}
    /\ cacheOp' = [NoCacheOp EXCEPT !.op = "damage", !.key = KeyOf(inp)]
    /\ UNCHANGED <<cnow, enabled, lastPut, cacheFrame>>

NextCache ==
    \/ \E en \in BOOLEAN : CacheStart(en)
    \/ \E inp \in CacheInputs, payload \in CachePayloads : CachePut(inp, payload)
    \/ \E inp \in CacheInputs : CacheGet(inp)
    \/ CachePurge
    \/ CacheTick

\* The cache with rows that are rewritten from outside to a text that is no
\* JSON.
NextMalformed ==
    \/ NextCache
    \/ \E inp \in CacheInputs : CacheDamage(inp, "malformed")

\* The cache with rows that are rewritten from outside.
NextDamage ==
    \/ NextCache
    \/ \E inp \in CacheInputs, kind \in DamageKinds : CacheDamage(inp, kind)

\* ------------------------------------------------------ profile fingerprint
allowed_keys ==
    {"state", "state_code", "age", "gender", "income_per_year", "caste_category",
     "occupation", "bpl_card", "landholding_acres", "family_size", "education"}

\* The profile keys followed: two that are allow-listed, two that are not.
FpKeys == {"state", "age", "disability", "marital_status"}

\* The values get_profile can give for a key (it leaves unknown fields out).
FpValues(k) ==
    CASE k = "state" -> {PyStr("Tamil Nadu"), PyStr("Kerala")}
      [] k = "age" -> {PyInt(30), PyInt(61)}
      [] k = "disability" -> {PyStr("visual")}
      [] k = "marital_status" -> {PyStr("widowed")}

FpAllValues == UNION {FpValues(k) : k \in FpKeys}

\* A profile is a dict over some of the keys.
Profiles ==
    UNION {{f \in [D -> FpAllValues] : \A k \in D : f[k] \in FpValues(k)} :
           D \in SUBSET FpKeys}

FpSectors == {PyNone, PyStr("agricultural")}

FpUserTypes == {<<>>, <<"women", "farmer">>}

\* The order of the strings that sorted() compares.
StrRank(x) == CASE x = "farmer" -> 1 [] x = "women" -> 2

RECURSIVE InsertSorted(_, _)
InsertSorted(x, s) ==
    IF s = <<>> THEN <<x>>
    ELSE IF StrRank(x) < StrRank(Head(s)) THEN <<x>> \o s
    ELSE <<Head(s)>> \o InsertSorted(x, Tail(s))

\* The tags are left in the order given.
sorted_keeps_order(s) == s

RECURSIVE sorted(_)
\* sorted(user_types)
sorted(s) == IF s = <<>> THEN <<>> ELSE InsertSorted(Head(s), sorted(Tail(s)))

\* The empty string "", as against a JSON text.
EmptyStr == [kind |-> "empty", val |-> 0]

\* not x, for None or a string
Falsy(v) == v = PyNone \/ v = PyStr("")

\* _build_profile_fingerprint: "" when profile, sector and user_types are all
\* empty; else the JSON text (keys sorted, so one text per value) of the
\* allow-listed known fields, the sector or "", and the sorted user types.
_build_profile_fingerprint(profile, sector, user_types) ==
    IF DOMAIN profile = {} /\ Falsy(sector) /\ user_types = <<>>
    THEN EmptyStr
    ELSE
    LET kept == {key \in allowed_keys :
                    key \in DOMAIN profile /\ profile[key] # PyNone}
        reduced_profile == [key \in kept |-> profile[key]]
        payload ==
            PyDict([profile |-> PyDict(reduced_profile),
                    sector |-> IF Falsy(sector) THEN PyStr("") ELSE sector,
                    user_types |->
                        PyList([i \in 1..Len(user_types) |->
                                    PyStr(sorted(user_types)[i])])])
    IN  json_dumps(payload)

NoFpCall == [op |-> "none", p1 |-> <<>>, p2 |-> <<>>, sector |-> PyNone,
             user_types |-> <<>>, user_types2 |-> <<>>,
             f1 |-> EmptyStr, f2 |-> EmptyStr]

\* Two requests with the same sector and user types: the fingerprint of each.
BuildFingerprints(p1, p2, sector, user_types) ==
    /\ fpCall.op = "none"
    /\ fpCall' = [op |-> "called", p1 |-> p1, p2 |-> p2, sector |-> sector,
                  user_types |-> user_types, user_types2 |-> user_types,
                  f1 |-> _build_profile_fingerprint(p1, sector, user_types),
                  f2 |-> _build_profile_fingerprint(p2, sector, user_types)]
    /\ UNCHANGED fpFrame

\* The user-type tags in either order, as extract_context may list them.
FpTagOrders == {<<>>, <<"women", "farmer">>, <<"farmer", "women">>}

\* The profile dict of a session, its values as Python strings.
ProfileOf(sess) ==
    [k \in DOMAIN get_profile(sess) |-> PyStr(get_profile(sess)[k])]

\* The sessions followed: what is known of the user, without history.
FpSessions ==
    {[UserSession EXCEPT !.occupation = occ, !.state_code = st.code,
                         !.state_name = st.name] :
        occ \in {None, "farmer"}, st \in StateInfos \cup {NoInfo}}

\* The fingerprint is built twice from one profile, the user-type tags given
\* in two orders.
FingerprintTwice(prof, sector, ut1, ut2) ==
    /\ fpCall.op = "none"
    /\ {ut1[i] : i \in DOMAIN ut1} = {ut2[i] : i \in DOMAIN ut2}
    /\ fpCall' = [op |-> "twice", p1 |-> prof, p2 |-> prof, sector |-> sector,
                  user_types |-> ut1, user_types2 |-> ut2,
                  f1 |-> _build_profile_fingerprint(prof, sector, ut1),
                  f2 |-> _build_profile_fingerprint(prof, sector, ut2)]
    /\ UNCHANGED fpFrame

\* The fingerprint of a session before and after an exchange was appended to
\* its history, as query builds it from get_profile.
FingerprintOfSession(sess, sector, ut1, ut2) ==
    /\ fpCall.op = "none"
    /\ {ut1[i] : i \in DOMAIN ut1} = {ut2[i] : i \in DOMAIN ut2}
    /\ fpCall' = [op |-> "session", p1 |-> ProfileOf(sess),
                  p2 |-> ProfileOf(append_chat(append_chat(sess, "user", "q"),
                                               "assistant", "a")),
                  sector |-> sector, user_types |-> ut1, user_types2 |-> ut2,
                  f1 |-> _build_profile_fingerprint(ProfileOf(sess), sector, ut1),
                  f2 |-> _build_profile_fingerprint(
                             ProfileOf(append_chat(append_chat(sess, "user", "q"),
                                                   "assistant", "a")),
                             sector, ut2)]
    /\ UNCHANGED fpFrame

NextCanonical ==
    \/ \E prof \in Profiles, sector \in FpSectors, ut1 \in FpTagOrders,
          ut2 \in FpTagOrders : FingerprintTwice(prof, sector, ut1, ut2)
    \/ \E sess \in FpSessions, sector \in FpSectors, ut1 \in FpTagOrders,
          ut2 \in FpTagOrders : FingerprintOfSession(sess, sector, ut1, ut2)

NextFingerprint ==
    \E p1 \in Profiles, p2 \in Profiles, sector \in FpSectors,
       user_types \in FpUserTypes : BuildFingerprints(p1, p2, sector, user_types)

\* ------------------------------------------------------------ quality scorer
\* Scores are held in thousandths.
MaxResults == 3
MaxTopK == 2

\* DOMAIN_TRUST["_default"]
DEFAULT_TRUST == 400

\* domain_reliability, for the domains followed: the first DOMAIN_TRUST entry
\* that is part of the domain, and the default for a domain no entry or suffix
\* matches and for no domain.
domain_reliability(domain) ==
    CASE domain = "myscheme.gov.in" -> 1000
      [] domain = "pib.gov.in" -> 970
      [] domain = "sipcot.com" -> 950
      [] domain = "thehindu.com" -> 720
      [] domain = "hindustantimes.com" -> 670
      [] domain = "example-blog.net" -> DEFAULT_TRUST
      [] domain = "example.com" -> DEFAULT_TRUST
      [] domain = "" -> DEFAULT_TRUST

\* _reliability_score
_reliability_score(result) == domain_reliability(result.domain)

\* _recency_score: 0.5 without a (parsable) date, days_old -1 here; else by age.
_recency_score(result) ==
    IF result.days_old < 0 THEN 500
    ELSE IF result.days_old <= 7 THEN 1000
    ELSE IF result.days_old <= 30 THEN 900
    ELSE IF result.days_old <= 90 THEN 750
    ELSE IF result.days_old <= 365 THEN 500
    ELSE 300

\* _relevance_score, in ten-thousandths: 0.5 for a query without words, else
\* overlap * 0.6 + provider_score * 0.4, the provider's score counting as 0.5
\* when it is not positive.
_relevance_score(result, query) ==
    IF query = {} THEN 5000
    ELSE LET overlap == (1000 * Cardinality(query \cap result.words))
                            \div Cardinality(query)
             provider_score == IF result.score > 0 THEN result.score ELSE 500
         IN  overlap * 6 + provider_score * 4

\* round(relevance * 0.4 + recency * 0.3 + reliability * 0.3, 3)
final_score(result, query) ==
    (_relevance_score(result, query) * 4
        + _recency_score(result) * 30
        + _reliability_score(result) * 30 + 50) \div 100

\* The SearchResults followed: two of one URL with different scores, two of
\* different URLs that score the same.
SearchResults ==
    { [url |-> "u1", words |-> {"pm", "kisan"}, score |-> 900, days_old |-> 3,
       domain |-> "myscheme.gov.in"],
      [url |-> "u1", words |-> {"pm"}, score |-> 0, days_old |-> -1,
       domain |-> "example.com"],
      [url |-> "u2", words |-> {}, score |-> 0, days_old |-> 400,
       domain |-> "thehindu.com"],
      [url |-> "u3", words |-> {"pm"}, score |-> 0, days_old |-> -1,
       domain |-> ""] }

ScorerQueries == {{"pm", "kisan"}, {}}

\* The results with result.score set to the final score.
Scored(results, query) ==
    [i \in 1..Len(results) |->
        [results[i] EXCEPT !.score = final_score(results[i], query)]]

RECURSIVE InsertDesc(_, _)
\* x goes behind every element that scores at least as much.
InsertDesc(s, x) ==
    IF s = <<>> THEN <<x>>
    ELSE IF Head(s).score >= x.score THEN <<Head(s)>> \o InsertDesc(Tail(s), x)
    ELSE <<x>> \o s

RECURSIVE SortDesc(_)
\* scored.sort(key=score, reverse=True): stable, equal scores keep their order.
SortDesc(s) ==
    IF s = <<>> THEN <<>>
    ELSE InsertDesc(SortDesc(SubSeq(s, 1, Len(s) - 1)), s[Len(s)])

RECURSIVE DedupeByUrl(_, _)
\* The first result of each URL, in order; seen_urls are the URLs met so far.
DedupeByUrl(s, seen_urls) ==
    IF s = <<>> THEN <<>>
    ELSE IF Head(s).url \in seen_urls THEN DedupeByUrl(Tail(s), seen_urls)
    ELSE <<Head(s)>> \o DedupeByUrl(Tail(s), seen_urls \cup {Head(s).url})

\* s[:k]
Prefix(s, k) ==
    IF k >= 0 THEN SubSeq(s, 1, Min(k, Len(s)))
    ELSE SubSeq(s, 1, Max(0, Len(s) + k))

\* A plausible slip in score_results: duplicates are dropped before the sort.
score_results_dedupe_first(results, query, top_k) ==
    IF results = <<>> THEN <<>>
    ELSE Prefix(SortDesc(DedupeByUrl(Scored(results, query), {})), top_k)

\* score_results: score, sort by score descending, drop later results of a
\* URL already seen, keep the first top_k.
score_results(results, query, top_k) ==
    IF results = <<>> THEN <<>>
    ELSE Prefix(DedupeByUrl(SortDesc(Scored(results, query)), {}), top_k)

NoScCall == [op |-> "none", results |-> <<>>, query |-> {}, top_k |-> 0,
             out |-> <<>>]

ScoreResults(results, query, top_k) ==
    /\ scCall.op = "none"
    /\ scCall' = [op |-> "called", results |-> results, query |-> query,
                  top_k |-> top_k, out |-> score_results(results, query, top_k)]
    /\ UNCHANGED scoreFrame

\* The list a call returned is scored again, with the same query and top_k.
ScoreAgain ==
    /\ scCall.op = "called"
    /\ scCall' = [op |-> "rescored", results |-> scCall.out,
                  query |-> scCall.query, top_k |-> scCall.top_k,
                  out |-> score_results(scCall.out, scCall.query, scCall.top_k)]
    /\ UNCHANGED scoreFrame

NextScorer ==
    \/ \E n \in 0..MaxResults :
          \E results \in [1..n -> SearchResults], query \in ScorerQueries,
             top_k \in 0..MaxTopK : ScoreResults(results, query, top_k)
    \/ ScoreAgain

\* ------------------------------------------------- verified-source filter
\* Reliabilities are thousandths, as in the scorer.  A published_date is the
\* text's format and the age, in half days before the call, of the instant it
\* names; "none" is None, "empty" is "", "other" is a text of no accepted format.
MaxFiltered == 2

ParsedFormats == {"%Y-%m-%dT%H:%M:%SZ", "%Y-%m-%dT%H:%M:%S.%fZ", "%Y-%m-%d",
                  "%Y-%m-%dT%H:%M:%S%z"}

NoDate == [parsed |-> FALSE, age |-> 0]

\* _parse_date: None for no text and for a text none of the four formats
\* fits, else the instant, kept as its age.
_parse_date(date_text) ==
    IF date_text.fmt \in ParsedFormats
    THEN [parsed |-> TRUE, age |-> date_text.age]
    ELSE NoDate

\* (datetime.now(timezone.utc) - parsed).days: whole days, rounded down.
DaysOld(parsed) == parsed.age \div 2

\* Accepts every result whose date is unknown.
_is_recent_enough_undated_ok(result, max_days) ==
    LET parsed == _parse_date(result.published_date)
    IN  IF ~parsed.parsed THEN TRUE
        ELSE DaysOld(parsed) <= max_days

\* _is_recent_enough: an unknown date is accepted only at reliability 0.95
\* and above, a known one up to max_days whole days.
_is_recent_enough(result, max_days) ==
    LET reliability == domain_reliability(result.domain)
        parsed == _parse_date(result.published_date)
    IN  IF ~parsed.parsed THEN reliability >= 950
        ELSE DaysOld(parsed) <= max_days

RECURSIVE VerifiedLoop(_, _, _)
\* The loop of filter_verified_results over results, in order.
VerifiedLoop(results, min_reliability, limit_days) ==
    IF results = <<>> THEN <<>>
    ELSE LET result == Head(results)
             rest == VerifiedLoop(Tail(results), min_reliability, limit_days)
         IN  IF domain_reliability(result.domain) < min_reliability THEN rest
             ELSE IF ~_is_recent_enough(result, limit_days) THEN rest
             ELSE <<result>> \o rest

filter_verified_results(results, query_intent, min_reliability, max_age_days, max_news_age_days) ==
    IF results = <<>> THEN <<>>
    ELSE LET is_news_intent == query_intent = "latest_news"
             limit_days == IF is_news_intent THEN max_news_age_days
                           ELSE max_age_days
         IN  VerifiedLoop(results, min_reliability, limit_days)

\* A SearchResult with a publication date; days_old is what _recency_score
\* reads from the same text (-1 when it parses to nothing).
Dated(url, domain, fmt, age) ==
    [url |-> url, words |-> {}, score |-> 0, domain |-> domain,
     published_date |-> [fmt |-> fmt, age |-> age],
     days_old |-> IF fmt \in ParsedFormats THEN age \div 2 ELSE -1]

\* The results followed: each trust level of the table against dates that
\* are fresh, stale, at a limit, half a day past it, absent and unparsable.
DatedResults ==
    { Dated("v1", "pib.gov.in", "%Y-%m-%dT%H:%M:%SZ", 2),
      Dated("v2", "thehindu.com", "%Y-%m-%dT%H:%M:%SZ", 120),
      Dated("v3", "example-blog.net", "%Y-%m-%dT%H:%M:%SZ", 2),
      Dated("v4", "myscheme.gov.in", "none", 0),
      Dated("v5", "thehindu.com", "none", 0),
      Dated("v6", "sipcot.com", "other", 0),
      Dated("v7", "hindustantimes.com", "%Y-%m-%d", 43),
      Dated("v8", "thehindu.com", "%Y-%m-%dT%H:%M:%S%z", 44),
      Dated("v9", "pib.gov.in", "%Y-%m-%dT%H:%M:%S.%fZ", 91),
      Dated("v10", "example-blog.net", "empty", 0) }

\* query_intent is None or one of the constants of QueryIntent.
FilterIntents == {None, "latest_news", "scheme_discovery"}

\* min_source_reliability, and (max_source_age_days, max_news_age_days): the
\* defaults of Settings and other values the environment may set.
MinReliabilities == {670, 970}
AgeLimits == {<<45, 21>>, <<45, 7>>}

NoFvCall == [op |-> "none", results |-> <<>>, query_intent |-> None,
             min_reliability |-> 0, max_age_days |-> 0,
             max_news_age_days |-> 0, out |-> <<>>]

FilterVerified(results, query_intent, min_reliability, limits) ==
    /\ fvCall.op = "none"
    /\ fvCall' = [op |-> "filtered", results |-> results,
                  query_intent |-> query_intent,
                  min_reliability |-> min_reliability,
                  max_age_days |-> limits[1], max_news_age_days |-> limits[2],
                  out |-> filter_verified_results(results, query_intent,
                              min_reliability, limits[1], limits[2])]
    /\ UNCHANGED <<rkCall, verifyFrame>>

NextFilter ==
    \E n \in 0..MaxFiltered :
       \E results \in [1..n -> DatedResults], query_intent \in FilterIntents,
          min_reliability \in MinReliabilities, limits \in AgeLimits :
             FilterVerified(results, query_intent, min_reliability, limits)


\* --------------------------------------- source selection up to the payload
\* APIAggregator.query from the merged results to the payload: the filter,
\* the choice of the scoring pool, the ranking, the citations and the
\* verification summary.
MaxPool == 2

RankSettings ==
    [strict_verified_mode : BOOLEAN, min_source_reliability : {670},
     max_source_age_days : {45}, max_news_age_days : {21},
     require_multi_source_for_news : BOOLEAN]

\* The words of english_query.
RankQuery == {"pm", "kisan"}

\* The source citations of ranked_results[:6].
Citations(ranked, settings) ==
    [i \in 1..Len(ranked) |->
        [url |-> ranked[i].url, score |-> ranked[i].score,
         domain |-> ranked[i].domain,
         published_date |-> ranked[i].published_date,
         reliability |-> domain_reliability(ranked[i].domain),
         verified |-> domain_reliability(ranked[i].domain)
                          >= settings.min_source_reliability]]

RankPass(all_results, intent, settings) ==
    LET verified_results ==
            filter_verified_results(all_results, intent,
                settings.min_source_reliability, settings.max_source_age_days,
                settings.max_news_age_days)
        scoring_pool ==
            IF settings.strict_verified_mode /\ verified_results # <<>>
            THEN verified_results ELSE all_results
        ranked_results == score_results(scoring_pool, RankQuery, 12)
        cited == Prefix(ranked_results, 6)
        trusted_domains ==
            { cited[i].domain : i \in
                { j \in 1..Len(cited) : domain_reliability(cited[j].domain)
                                          >= settings.min_source_reliability } }
        verification_summary ==
            [strict_mode |-> settings.strict_verified_mode,
             trusted_source_count |-> Cardinality(trusted_domains),
             multi_source_news_verified |->
                 \/ intent # "latest_news"
                 \/ ~settings.require_multi_source_for_news
                 \/ Cardinality(trusted_domains) >= 2]
    IN  [verified_results |-> verified_results,
         scoring_pool |-> scoring_pool,
         ranked_results |-> ranked_results,
         payload |-> [sources |-> Citations(cited, settings),
                      intent |-> intent,
                      verification |-> verification_summary,
                      cache_hit |-> FALSE]]

NoRkCall == [op |-> "none"]

Rank(all_results, intent, settings) ==
    /\ rkCall.op = "none"
    /\ rkCall' = [op |-> "ranked", all_results |-> all_results,
                  intent |-> intent, settings |-> settings,
                  pass |-> RankPass(all_results, intent, settings)]
    /\ UNCHANGED <<fvCall, verifyFrame>>

NextRank ==
    \E n \in 0..MaxPool :
       \E all_results \in [1..n -> DatedResults], intent \in FilterIntents,
          settings \in RankSettings : Rank(all_results, intent, settings)


\* ------------------------------------------------------ LLM fallback chain
\* LLMClient.generate with OpenAIClient.generate inside it.  One step is one
\* awaited chat.completions.create and what the code does with its outcome.
MaxOpenAIKeys == 2
MaxGroqKeys == 2

FALLBACK_MODELS ==
    <<"llama-3.3-70b-versatile", "llama-3.1-8b-instant", "gemma2-9b-it",
      "llama3-8b-8192", "mixtral-8x7b-32768">>

\* OpenAIClient._key_order, from _next_key_index = start: indices from 0.
_key_order(total, start) == [i \in 1..total |-> (start + i - 1) % total]

RECURSIVE TokenChainLoop(_, _)
\* The loop of _token_chain: the positive values, each once, in order.
TokenChainLoop(raw, chain) ==
    IF raw = <<>> THEN chain
    ELSE IF Head(raw) > 0 /\ \A i \in 1..Len(chain) : chain[i] # Head(raw)
         THEN TokenChainLoop(Tail(raw), Append(chain, Head(raw)))
         ELSE TokenChainLoop(Tail(raw), chain)

_token_chain(max_tokens) ==
    TokenChainLoop(<<max_tokens, 4096, 3072, 2048, 1024>>, <<>>)

\* The settings a deployment may have: the OpenAI and Groq keys (at least one
\* Groq key, or LLMClient() raises) and openai_max_tokens.
LLMSettings ==
    [openai_keys : 0..MaxOpenAIKeys, groq_keys : 1..MaxGroqKeys,
     openai_max_tokens : {4096, 6000}]

\* The same with an openai_max_tokens below the fixed budgets of _token_chain.
LowBudgetSettings ==
    [openai_keys : 0..MaxOpenAIKeys, groq_keys : 1..MaxGroqKeys,
     openai_max_tokens : {2048, 4096}]

\* What one completion call gives: a message content (None, empty, blank or
\* text), or an exception, which may be a token-limit error.
Contents == {NoText, <<>>, <<" ">>, <<" ", "o", "k", " ">>}

Outcomes ==
    [kind : {"content"}, content : Contents, token_error : {FALSE}]
        \cup [kind : {"raise"}, content : {<<>>}, token_error : BOOLEAN]

\* if answer: any answer is taken
Taken_any(answer) == TRUE

\* if answer:
Taken(answer) == answer # <<>>

NoGen ==
    [pc |-> "unborn", settings |-> [openai_keys |-> 0, groq_keys |-> 1,
                                    openai_max_tokens |-> 4096],
     next_key_index |-> 0, key_order |-> <<>>, kpos |-> 0, tpos |-> 0,
     key_idx |-> 0, midx |-> 0, tried |-> <<>>, passed_over |-> FALSE,
     last_error |-> None, result |-> NoText, last |-> "none"]

\* LLMClient(): the singleton, with its OpenAIClient.
NewLLMClient(settings) ==
    /\ gen.pc = "unborn"
    /\ gen' = [gen EXCEPT !.pc = "ready", !.settings = settings]
    /\ UNCHANGED llmFrame

\* The Groq loops begin (or continue) at the first pair.
GroqBegins(g) == [g EXCEPT !.pc = "groq", !.key_idx = 1, !.midx = 1, !.last = "none"]

\* generate is called: up to the first await.  With an OpenAI client the
\* coroutine enters OpenAIClient.generate, which fixes key_order and moves
\* _next_key_index on.
Called(g) ==
    LET fresh == [g EXCEPT !.tried = <<>>, !.passed_over = FALSE,
                           !.last_error = None, !.result = NoText,
                           !.last = "none",
                           !.key_order = <<>>, !.kpos = 0, !.tpos = 0,
                           !.key_idx = 0, !.midx = 0]
        total == g.settings.openai_keys
        start == g.next_key_index % total
    IN  IF total > 0
        THEN [fresh EXCEPT !.pc = "openai",
                           !.key_order = _key_order(total, start),
                           !.next_key_index = (start + 1) % total,
                           !.kpos = 1, !.tpos = 1]
        ELSE GroqBegins(fresh)

Generate ==
    /\ gen.pc \in {"ready", "returned", "raised"}
    /\ gen' = Called(gen)
    /\ UNCHANGED llmFrame

\* OpenAIClient.generate after a key is done with: the next key, or
\* RuntimeError, which LLMClient.generate catches before its Groq loops.
OpenAINextKey(g) ==
    IF g.kpos < Len(g.key_order)
    THEN [g EXCEPT !.kpos = g.kpos + 1, !.tpos = 1]
    ELSE GroqBegins([g EXCEPT !.last_error = "Exception"])

\* ... after a token budget is done with: the next budget, or the next key.
OpenAINextBudget(g) ==
    IF g.tpos < Len(_token_chain(g.settings.openai_max_tokens))
    THEN [g EXCEPT !.tpos = g.tpos + 1]
    ELSE OpenAINextKey(g)

\* What a completion call came to: a content, a token-limit error
\* (_is_token_error), or another exception.
KindOf(outcome) ==
    IF outcome.kind = "content" THEN "content"
    ELSE IF outcome.token_error THEN "token_error"
    ELSE "error"

\* One completion call of OpenAIClient.generate returns or raises.
OpenAIAttempt(outcome) ==
    /\ gen.pc = "openai"
    /\ LET max_tokens == _token_chain(gen.settings.openai_max_tokens)[gen.tpos]
           g == [gen EXCEPT !.tried = Append(gen.tried,
                     [via |-> "openai", key |-> gen.key_order[gen.kpos] + 1,
                      with |-> max_tokens]),
                            !.last = KindOf(outcome)]
           answer == Strip(OrElse(outcome.content, <<>>))
       IN  gen' =
             IF outcome.kind = "raise"
             THEN IF outcome.token_error
                  THEN OpenAINextBudget([g EXCEPT !.last_error = "Exception"])
                  ELSE OpenAINextKey([g EXCEPT !.last_error = "Exception"])
             ELSE IF Taken(answer)
                  THEN [g EXCEPT !.pc = "returned", !.result = answer]
                  ELSE OpenAINextBudget(
                           [g EXCEPT !.passed_over = @ \/ answer # <<>>])
    /\ UNCHANGED llmFrame

\* The Groq loops after a pair is done with: the next model, the next key, or
\* RuntimeError("All LLM attempts failed ...").
GroqNext(g) ==
    IF g.midx < Len(FALLBACK_MODELS) THEN [g EXCEPT !.midx = g.midx + 1]
    ELSE IF g.key_idx < g.settings.groq_keys
         THEN [g EXCEPT !.key_idx = g.key_idx + 1, !.midx = 1]
         ELSE [g EXCEPT !.pc = "raised"]

\* One completion call of the Groq loops returns or raises; content None makes
\* .strip() raise AttributeError inside the try.
GroqAttempt(outcome) ==
    /\ gen.pc = "groq"
    /\ LET g == [gen EXCEPT !.tried = Append(gen.tried,
                     [via |-> "groq", key |-> gen.key_idx,
                      with |-> FALLBACK_MODELS[gen.midx]])]
           answer == Strip(outcome.content)
       IN  gen' =
             IF outcome.kind = "raise"
             THEN GroqNext([g EXCEPT !.last_error = "Exception"])
             ELSE IF outcome.content = NoText
                  THEN GroqNext([g EXCEPT !.last_error = "Exception"])
                  ELSE IF Taken(answer)
                       THEN [g EXCEPT !.pc = "returned", !.result = answer]
                       ELSE GroqNext(
                                [g EXCEPT !.passed_over = @ \/ answer # <<>>])
    /\ UNCHANGED llmFrame

NextLLM ==
    \/ \E settings \in LLMSettings : NewLLMClient(settings)
    \/ Generate
    \/ \E outcome \in Outcomes : OpenAIAttempt(outcome)
    \/ \E outcome \in Outcomes : GroqAttempt(outcome)

NextLowBudget ==
    \/ \E settings \in LowBudgetSettings : NewLLMClient(settings)
    \/ Generate
    \/ \E outcome \in Outcomes : OpenAIAttempt(outcome)
    \/ \E outcome \in Outcomes : GroqAttempt(outcome)


\* ------------------------------------------------- chat_text: the three tiers
\* chat_text from step 4 on, for a query that passed moderation.  path lists
\* the tiers entered; the direct LLM tier runs the fallback chain above.
FALLBACK_MESSAGE == <<"s", "t", "a", "t", "i", "c">>

\* result["answer"] of a pipeline that succeeded.
AggregatorAnswers == {<<"a", "g", "g">>}

NoResponse == [reply |-> NoText, sources |-> FALSE]

NoTier == [pc |-> "idle", path |-> <<>>, aggregator |-> None, llm |-> None,
           response |-> NoResponse, raised |-> FALSE]

\* Step 4 up to the await of aggregator.query.
PassedModeration ==
    /\ tier.pc = "idle"
    /\ tier' = [tier EXCEPT !.pc = "aggregator", !.path = <<"aggregator">>]
    /\ UNCHANGED <<llmVars, tierFrame>>

\* The exception of aggregator.query leaves chat_text.
AggregatorFailed_raises(t) == [t EXCEPT !.pc = "done", !.raised = TRUE]

\* except Exception as agg_err: the exception is logged, and step 5 follows.
AggregatorFailed(t) == [t EXCEPT !.pc = "llm", !.path = Append(@, "llm")]

\* Step 6.
Static(t) ==
    [t EXCEPT !.pc = "done", !.path = Append(@, "static"),
              !.response = [reply |-> FALLBACK_MESSAGE, sources |-> FALSE]]

\* aggregator.query returns its payload, and chat_text the response made of
\* it.
AggregatorReturns(answer) ==
    /\ tier.pc = "aggregator"
    /\ tier' = [tier EXCEPT !.pc = "done", !.aggregator = "returned",
                            !.response = [reply |-> answer, sources |-> TRUE]]
    /\ UNCHANGED <<llmVars, tierFrame>>

\* aggregator.query raises; step 5 gets the LLMClient singleton, made now if
\* there is none yet (which raises ValueError without a Groq key), and awaits
\* generate.
AggregatorRaises(has_groq_key, settings) ==
    /\ tier.pc = "aggregator"
    /\ LET t == AggregatorFailed([tier EXCEPT !.aggregator = "raised"])
       IN  IF t.pc # "llm"
           THEN tier' = t /\ gen' = gen
           ELSE IF gen.pc = "unborn" /\ ~has_groq_key
           THEN tier' = Static([t EXCEPT !.llm = "raised"]) /\ gen' = gen
           ELSE /\ tier' = t
                /\ gen' = Called(IF gen.pc = "unborn"
                                 THEN [gen EXCEPT !.pc = "ready",
                                                  !.settings = settings]
                                 ELSE gen)
    /\ UNCHANGED tierFrame

\* generate returns its answer or raises RuntimeError.
FallbackEnds ==
    /\ tier.pc = "llm"
    /\ gen.pc \in {"returned", "raised"}
    /\ tier' = IF gen.pc = "returned"
               THEN [tier EXCEPT !.pc = "done", !.llm = "returned",
                        !.response = [reply |-> gen.result, sources |-> FALSE]]
               ELSE Static([tier EXCEPT !.llm = "raised"])
    /\ UNCHANGED <<llmVars, tierFrame>>

NextTiers ==
    \/ PassedModeration
    \/ \E answer \in AggregatorAnswers : AggregatorReturns(answer)
    \/ \E has_groq_key \in BOOLEAN, settings \in LLMSettings :
          AggregatorRaises(has_groq_key, settings)
    \/ \E outcome \in Outcomes : tier.pc = "llm" /\ OpenAIAttempt(outcome)
    \/ \E outcome \in Outcomes : tier.pc = "llm" /\ GroqAttempt(outcome)
    \/ FallbackEnds


\* ------------------------------------------------- topic guard, word by word
\* A query is a sequence of tokens separated by single blanks; the tokens
\* followed are one word of each vocabulary, one of none, and two off-topic
\* words joined by a comma.  The query is drawn token by token, then
\* classified.
MaxGuardWords == 5

GuardWords == {"SHIT", "scheme", "pm", "cricket", "hello", "ipl,cricket"}

\* str.lower(), token by token.
LowerWord(w) == IF w = "SHIT" THEN "shit" ELSE w

\* re.findall(r"\b\w+\b", ...) on one token: the comma is no word character.
WordsOfToken(w) == IF w = "ipl,cricket" THEN {"ipl", "cricket"} ELSE {w}

\* _hard_block_re.search(normalized), for the words followed.
HardBlockMatches(normalized) ==
    \E i \in 1..Len(normalized) : normalized[i] = "shit"

\* What the six checks of classify read off a query.
GuardView(query) ==
    LET normalized == [i \in 1..Len(query) |-> LowerWord(query[i])]
        words == UNION {WordsOfToken(normalized[i]) : i \in 1..Len(normalized)}
    IN  [hard |-> HardBlockMatches(normalized),
         on_kw |-> "scheme" \in words,
         on_pat |-> \E i \in 1..Len(normalized) : normalized[i] = "pm",
         tokens |-> Len(normalized),
         off_kw |-> "cricket" \in words]

NoTgCall == [op |-> "none", query |-> <<>>, verdict |-> None]

\* One more word of the query that will be classified.
QueryGrows(w) ==
    /\ tgCall.op = "none"
    /\ Len(tgCall.query) < MaxGuardWords
    /\ tgCall' = [tgCall EXCEPT !.query = Append(@, w)]
    /\ UNCHANGED guardFrame

Classify ==
    /\ tgCall.op = "none"
    /\ tgCall' = [tgCall EXCEPT !.op = "classified",
                                !.verdict = classify(GuardView(tgCall.query))]
    /\ UNCHANGED guardFrame

NextGuard ==
    \/ \E w \in GuardWords : QueryGrows(w)
    \/ Classify

\* ------------------------------------------- session store, call by call
\* The functions of the session store called on one session, in any order.
MaxAppends == 32

\* The updates dicts followed: what _mine_profile_from_query and the state
\* update of query pass, a key that is no field of UserSession, a None value
\* and an empty string.
ProfileUpdates ==
    { [occupation |-> "farmer"],
      [occupation |-> "student", state_code |-> None, state_name |-> None],
      [state_code |-> "TN", state_name |-> "Tamil Nadu"],
      [state |-> "Kerala"],
      [occupation |-> None],
      [occupation |-> ""] }

NoSsOp == [fn |-> "none", pre |-> UserSession, updates |-> <<>>,
           state_info |-> NoInfo]

UpdateProfile(updates) ==
    /\ ss' = update_profile(ss, updates)
    /\ ssOp' = [NoSsOp EXCEPT !.fn = "update_profile", !.pre = ss,
                              !.updates = updates]
    /\ UNCHANGED <<ssCount, storeFrame>>

SetStateFromIp(state_info) ==
    /\ ss' = set_state_from_ip(ss, state_info)
    /\ ssOp' = [NoSsOp EXCEPT !.fn = "set_state_from_ip", !.pre = ss,
                              !.state_info = state_info]
    /\ UNCHANGED <<ssCount, storeFrame>>

\* The role of the n-th message: query appends the user's message, then the
\* assistant's.
RoleOf(n) == IF n % 2 = 1 THEN "user" ELSE "assistant"

\* The n-th append_chat call; the content of its message is n.
AppendChat ==
    /\ ssCount < MaxAppends
    /\ ssCount' = ssCount + 1
    /\ ss' = append_chat(ss, RoleOf(ssCount + 1), ssCount + 1)
    /\ ssOp' = [NoSsOp EXCEPT !.fn = "append_chat", !.pre = ss]
    /\ UNCHANGED storeFrame

NextStore ==
    \/ \E updates \in ProfileUpdates : UpdateProfile(updates)
    \/ \E state_info \in StateInfos \cup {NoInfo} : SetStateFromIp(state_info)
    \/ AppendChat


\* ------------------------------------------------ the state of a request
\* One request after another of one session, each from the state resolution
\* of chat_text to the state update of APIAggregator.query; the queries pass
\* moderation and are no greetings.
QueryStates ==
    {[code |-> "TN", name |-> "Tamil Nadu"], [code |-> "KA", name |-> "Karnataka"]}

IpStates ==
    StateInfos \cup {[code |-> "DL", name |-> "Delhi"]}

\* ChatTextRequest.user_state: absent, empty, or a state the client supplies.
UserStates == {None, "", "KL"}

NoRsOp == [fn |-> "none", user_state |-> None, state_info |-> NoInfo,
           query_state |-> NoInfo, final_state |-> NoInfo,
           named_before |-> NoInfo, pre |-> UserSession]

\* if query_state and not profile.get("state"):
StateUpdateDue(query_state, profile) ==
    query_state # NoInfo /\ "state" \notin DOMAIN profile

\* query_state or resolved_state or the state of the session profile
FinalState(query_state, resolved_state, profile) ==
    IF query_state # NoInfo THEN query_state
    ELSE IF resolved_state # NoInfo THEN resolved_state
    ELSE IF "state" \in DOMAIN profile
         THEN [code |-> IF "state_code" \in DOMAIN profile
                        THEN profile["state_code"] ELSE None,
               name |-> profile["state"]]
         ELSE NoInfo

\* A request with a (non-empty) user_state looks nothing up and passes no
\* resolved state on: user_state is assigned to a name that is not read again.
\* Another one stores what the lookup gave, if the session has no state, and
\* passes it on as resolved_state.  The result: the session as the request
\* leaves it, resolved_state and final_state.
RequestPass(sess, user_state, state_info, query_state) ==
    LET resolved_state == IF user_state # None /\ user_state # "" THEN NoInfo
                          ELSE state_info
        sess1 == set_state_from_ip(sess, resolved_state)
        profile == get_profile(sess1)
    IN  [session |-> IF StateUpdateDue(query_state, profile)
                     THEN update_profile(sess1,
                              [state_code |-> query_state.code,
                               state_name |-> query_state.name])
                     ELSE sess1,
         resolved_state |-> resolved_state,
         final_state |-> FinalState(query_state, resolved_state, profile)]

ChatRequest(user_state, state_info, query_state) ==
    /\ rsSess' = RequestPass(rsSess, user_state, state_info, query_state).session
    /\ rsOp' = [fn |-> "request", user_state |-> user_state,
                state_info |-> RequestPass(rsSess, user_state, state_info,
                                           query_state).resolved_state,
                query_state |-> query_state,
                final_state |-> RequestPass(rsSess, user_state, state_info,
                                            query_state).final_state,
                named_before |-> rsNamed, pre |-> rsSess]
    /\ rsNamed' = IF query_state # NoInfo THEN query_state ELSE rsNamed
    /\ UNCHANGED resolveFrame

NextResolve ==
    \E user_state \in UserStates, state_info \in IpStates \cup {NoInfo},
       query_state \in QueryStates \cup {NoInfo} :
          ChatRequest(user_state, state_info, query_state)


\* ------------------------------------------ APIAggregator.query, step by step
\* One request after another of one session, in English, each from the call of
\* APIAggregator.query to its return or exception.  The steps between two
\* suspensions run as one.
MaxQueries == 3

\* The queries: two that make the same cache key (case and blanks apart), one
\* that makes another, and a greeting in which the profile mining would find
\* an occupation.  id is the text as the user wrote it.
PipeQueries ==
    { [id |-> "p k", text |-> <<"p", " ", "k">>, greeting |-> FALSE,
       occupation |-> None],
      [id |-> " P  K", text |-> <<" ", "P", " ", " ", "K">>, greeting |-> FALSE,
       occupation |-> None],
      [id |-> "k", text |-> <<"k">>, greeting |-> FALSE, occupation |-> None],
      [id |-> "hello farmer", text |-> <<"h">>, greeting |-> TRUE,
       occupation |-> "farmer"] }

PipeAnswers == {"A", "B"}

\* The fingerprint text: "" for an empty profile of a query without sector and
\* user types, otherwise a JSON text, written "f" here.
FingerprintText(profile) == IF DOMAIN profile = {} THEN <<>> ELSE <<"f">>

\* The arguments of cache.get and cache.put: english_query, detected_lang,
\* intent, state_code (None: no state is known), profile_fingerprint.
PipeInput(q, profile) ==
    [query |-> q.text, language |-> <<"e", "n">>, intent |-> <<"s">>,
     state_code |-> NoText, profile_fingerprint |-> FingerprintText(profile)]

\* dict.setdefault
SetDefault(d, k, v) ==
    IF k \in DOMAIN d THEN d
    ELSE [x \in DOMAIN d \cup {k} |-> IF x = k THEN v ELSE d[x]]

\* The payload of the research path, as it is stored and returned.
Payload(answer) ==
    PyDict([answer |-> PyStr(answer),
            sources |-> PyList(<<PyDict([url |-> PyStr("u1"),
                                         verified |-> PyBool(TRUE)])>>),
            images |-> PyList(<<>>),
            language |-> PyStr("en"),
            intent |-> PyStr("scheme_discovery"),
            providers_queried |-> PyList(<<PyStr("tavily")>>),
            schemes |-> PyList(<<>>),
            state_detected |-> PyNone,
            verification |-> PyDict([strict_mode |-> PyBool(TRUE)]),
            cache_hit |-> PyBool(FALSE)])

\* _handle_greeting: the dict it returns.
GreetingPayload(answer) ==
    PyDict([answer |-> PyStr(answer),
            sources |-> PyList(<<>>),
            images |-> PyList(<<>>),
            language |-> PyStr("en"),
            intent |-> PyStr("greeting"),
            providers_queried |-> PyList(<<>>),
            schemes |-> PyList(<<>>)])

\* The cached payload as a hit returns it: the defaults fill what is missing
\* and cache_hit is set.
HitPayload(cached_payload) ==
    LET d1 == SetDefault(cached_payload.val, "answer", PyStr(""))
        d2 == SetDefault(d1, "sources", PyList(<<>>))
        d3 == SetDefault(d2, "images", PyList(<<>>))
        d4 == SetDefault(d3, "language", PyStr("en"))
        d5 == SetDefault(d4, "intent", PyStr("scheme_discovery"))
        d6 == SetDefault(d5, "providers_queried", PyList(<<PyStr("cache")>>))
        d7 == SetDefault(d6, "schemes", PyList(<<>>))
        d8 == SetDefault(d7, "state_detected", PyNone)
    IN  PyDict([k \in DOMAIN d8 \cup {"cache_hit"} |->
                   IF k = "cache_hit" THEN PyBool(TRUE) ELSE d8[k]])

\* cached_payload.get("answer", "")
CachedAnswer(cached_payload) ==
    IF "answer" \in DOMAIN cached_payload.val THEN cached_payload.val.answer.val
    ELSE ""

\* A hit that leaves the history alone.
OnCacheHit_no_history(sess, q, cached_payload) ==
    [session |-> sess, payload |-> HitPayload(cached_payload)]

\* The branch of a cache hit: the exchange is appended to the history and the
\* cached payload returned.
OnCacheHit(sess, q, cached_payload) ==
    [session |-> append_chat(append_chat(sess, "user", q.id), "assistant",
                             CachedAnswer(cached_payload)),
     payload |-> HitPayload(cached_payload)]

\* The coroutine of the request followed.  pc: "idle", "greeting" and "synth"
\* (suspended in llm.generate), "waiting" (suspended in asyncio.wait),
\* "returned", "raised", "fallback" (chat_text answered after the exception).
\* log: the steps the request took so far, in their
\* order.  pre and pre_table: the session and the cache table as the request
\* found them; cached: what cache.get returned.
NoQuery == [pc |-> "idle", query |-> None, greeting |-> FALSE, hit |-> FALSE,
            log |-> <<>>, payload |-> PyNone, cached |-> PyNone,
            pre |-> UserSession, pre_table |-> {}, count |-> 0]

\* The profile mining of the query, as far as it is followed: the occupation.
Mined(sess, q) ==
    IF q.occupation # None THEN update_profile(sess, [occupation |-> q.occupation])
    ELSE sess

\* The greeting is recognised only after the session was loaded and the query
\* mined.
QueryHead_greets_late(sess, tbl, q) ==
    LET profile == get_profile(sess)
        sess1 == Mined(sess, q)
        g == get(tbl, PipeInput(q, profile), 0)
        hit == OnCacheHit(sess1, q, g.result)
    IN  IF q.greeting
        THEN [pc |-> "greeting", session |-> sess1, table |-> tbl, hit |-> FALSE,
              cached |-> PyNone, payload |-> PyNone,
              log |-> <<"classify", "get_profile", "mine_profile", "llm.generate">>]
        ELSE IF g.result # PyNone /\ DOMAIN g.result.val # {}
        THEN [pc |-> "returned", session |-> hit.session, table |-> g.table,
              hit |-> TRUE, cached |-> g.result, payload |-> hit.payload,
              log |-> <<"classify", "get_profile", "mine_profile", "cache.get",
                        "append_chat", "append_chat", "return">>]
        ELSE [pc |-> "waiting", session |-> sess1, table |-> g.table,
              hit |-> FALSE, cached |-> g.result, payload |-> PyNone,
              log |-> <<"classify", "get_profile", "mine_profile", "cache.get",
                        "create_task", "asyncio.wait">>]

\* APIAggregator.query up to its first suspension or its return: the
\* classification and the greeting fast path; else the session profile, the
\* profile mining, the cache lookup and, on a hit, the return, on a miss the
\* creation of the provider tasks.
QueryHead(sess, tbl, q) ==
    LET profile == get_profile(sess)
        sess1 == Mined(sess, q)
        g == get(tbl, PipeInput(q, profile), 0)
        hit == OnCacheHit(sess1, q, g.result)
    IN  IF q.greeting
        THEN [pc |-> "greeting", session |-> sess, table |-> tbl, hit |-> FALSE,
              cached |-> PyNone, payload |-> PyNone,
              log |-> <<"classify", "llm.generate">>]
        ELSE IF g.result # PyNone /\ DOMAIN g.result.val # {}
        THEN [pc |-> "returned", session |-> hit.session, table |-> g.table,
              hit |-> TRUE, cached |-> g.result, payload |-> hit.payload,
              log |-> <<"classify", "get_profile", "mine_profile", "cache.get",
                        "append_chat", "append_chat", "return">>]
        ELSE [pc |-> "waiting", session |-> sess1, table |-> g.table,
              hit |-> FALSE, cached |-> g.result, payload |-> PyNone,
              log |-> <<"classify", "get_profile", "mine_profile", "cache.get",
                        "create_task", "asyncio.wait">>]

\* A request arrives when the one before it has ended.
QueryArrives(q) ==
    /\ pq.pc \in {"idle", "returned", "raised", "fallback"}
    /\ pq.count < MaxQueries
    /\ pq' = [pc |-> QueryHead(pqSess, pqTable, q).pc, query |-> q.id,
              greeting |-> q.greeting,
              hit |-> QueryHead(pqSess, pqTable, q).hit,
              log |-> QueryHead(pqSess, pqTable, q).log,
              payload |-> QueryHead(pqSess, pqTable, q).payload,
              cached |-> QueryHead(pqSess, pqTable, q).cached,
              pre |-> pqSess, pre_table |-> pqTable, count |-> pq.count + 1]
    /\ pqSess' = QueryHead(pqSess, pqTable, q).session
    /\ pqTable' = QueryHead(pqSess, pqTable, q).table
    /\ UNCHANGED pipeFrame

\* Queries of the research path: one in which the profile mining finds an
\* occupation, and one in which it finds nothing.
MineQueries ==
    { [id |-> "k farmer", text |-> <<"k", " ", "f">>, greeting |-> FALSE,
       occupation |-> "farmer"],
      [id |-> "k", text |-> <<"k">>, greeting |-> FALSE, occupation |-> None] }

PipeQuery == CHOOSE q \in PipeQueries \cup MineQueries : q.id = pq.query

\* The greeting reply arrives.
GreetingReturns(answer) ==
    /\ pq.pc = "greeting"
    /\ pq' = [pq EXCEPT !.pc = "returned", !.payload = GreetingPayload(answer),
                        !.log = @ \o <<"return">>]
    /\ UNCHANGED <<pqSess, pqTable, pipeFrame>>

\* The question was saved to the history before the synthesis was called.
GenerateRaises_keeps_question ==
    /\ pq.pc \in {"greeting", "synth"}
    /\ pq' = [pq EXCEPT !.pc = "raised", !.log = @ \o <<"raise">>]
    /\ pqSess' = append_chat(pqSess, "user", pq.query)
    /\ UNCHANGED <<pqTable, pipeFrame>>

\* llm.generate raises (every key and model failed): so does query.
GenerateRaises ==
    /\ pq.pc \in {"greeting", "synth"}
    /\ pq' = [pq EXCEPT !.pc = "raised", !.log = @ \o <<"raise">>]
    /\ UNCHANGED <<pqSess, pqTable, pipeFrame>>

\* asyncio.wait returns: the responses are collected, the results filtered
\* and scored, the context built, and llm.generate is called.
WaitEnds ==
    /\ pq.pc = "waiting"
    /\ pq' = [pq EXCEPT !.pc = "synth",
                        !.log = @ \o <<"filter_verified_results", "score_results",
                                       "llm.generate">>]
    /\ UNCHANGED <<pqSess, pqTable, pipeFrame>>

\* The key of cache.put is made from the profile as the session has it by
\* then.
QueryTail_profile_reloaded(sess, tbl, q, answer, put_ok) ==
    [session |-> append_chat(append_chat(sess, "user", q.id), "assistant", answer),
     table |-> IF put_ok
               THEN put(tbl, PipeInput(q, get_profile(sess)), Payload(answer), 0)
               ELSE tbl,
     pc |-> IF put_ok THEN "returned" ELSE "raised",
     payload |-> IF put_ok THEN Payload(answer) ELSE PyNone,
     log |-> <<"append_chat", "append_chat", "cache.put">>
             \o (IF put_ok THEN <<"return">> ELSE <<"raise">>)]

\* The tail of the research path, from the answer of llm.generate: the
\* exchange is appended to the history, the payload built and stored, and
\* returned -- unless cache.put raises (sqlite3.Error).
QueryTail(sess, tbl, q, answer, put_ok) ==
    [session |-> append_chat(append_chat(sess, "user", q.id), "assistant", answer),
     table |-> IF put_ok
               THEN put(tbl, PipeInput(q, get_profile(pq.pre)), Payload(answer), 0)
               ELSE tbl,
     pc |-> IF put_ok THEN "returned" ELSE "raised",
     payload |-> IF put_ok THEN Payload(answer) ELSE PyNone,
     log |-> <<"append_chat", "append_chat", "cache.put">>
             \o (IF put_ok THEN <<"return">> ELSE <<"raise">>)]

\* The synthesis returns its answer.
GenerateReturns(answer, put_ok) ==
    /\ pq.pc = "synth"
    /\ pq' = [pq EXCEPT
                !.pc = QueryTail(pqSess, pqTable, PipeQuery, answer, put_ok).pc,
                !.payload = QueryTail(pqSess, pqTable, PipeQuery, answer, put_ok).payload,
                !.log = @ \o QueryTail(pqSess, pqTable, PipeQuery, answer, put_ok).log]
    /\ pqSess' = QueryTail(pqSess, pqTable, PipeQuery, answer, put_ok).session
    /\ pqTable' = QueryTail(pqSess, pqTable, PipeQuery, answer, put_ok).table
    /\ UNCHANGED pipeFrame

NextPipe ==
    \/ \E q \in PipeQueries : QueryArrives(q)
    \/ \E answer \in PipeAnswers : GreetingReturns(answer)
    \/ GenerateRaises
    \/ WaitEnds
    \/ \E answer \in PipeAnswers, put_ok \in BOOLEAN : GenerateReturns(answer, put_ok)

\* The requests that follow come from a session not seen before; the cache is
\* the same.
NewSession ==
    /\ pq.pc \in {"returned", "raised", "fallback"}
    /\ pqSess # UserSession
    /\ pqSess' = UserSession
    /\ pq' = [NoQuery EXCEPT !.count = pq.count]
    /\ UNCHANGED <<pqTable, pipeFrame>>

\* chat_text, tiers 2 and 3, after query raised: the reply of the direct
\* llm.generate call or, when that raises too, FALLBACK_MESSAGE.
FallbackReplies == {"llm_fallback", "static"}

FallbackPayload(reply) ==
    PyDict([reply |-> PyStr(reply), sources |-> PyList(<<>>),
            images |-> PyList(<<>>), language |-> PyStr("en"),
            schemes |-> PyList(<<>>)])

ChatTextFallsBack(reply) ==
    /\ pq.pc = "raised"
    /\ pq' = [pq EXCEPT !.pc = "fallback", !.payload = FallbackPayload(reply),
                        !.log = @ \o <<"fallback">>]
    /\ UNCHANGED <<pqSess, pqTable, pipeFrame>>

\* Requests whose queries the profile mining reads, from one session and then
\* from others, with chat_text's fallback after an exception.
NextMine ==
    \/ \E q \in MineQueries : QueryArrives(q)
    \/ GenerateRaises
    \/ WaitEnds
    \/ \E answer \in PipeAnswers, put_ok \in BOOLEAN : GenerateReturns(answer, put_ok)
    \/ \E reply \in FallbackReplies : ChatTextFallsBack(reply)
    \/ NewSession

\* ------------------------------------------- the ways into APIAggregator.query
\* One user whose requests come one after the other over the four channels:
\* text chat (no session_id, so the user id names the session), audio chat,
\* WhatsApp text and WhatsApp audio (the phone number is the user id).  The
\* clock stands still, so a block once set is active.
MaxEntries == 4

Channels == {"chat_text", "chat_audio", "whatsapp_text", "whatsapp_audio"}

\* The latest request: its channel and query (for audio: the transcribed
\* text), whether the topic guard and the block status check ran, and whether
\* the answer of APIAggregator.query was sent back.  pre: the session as the
\* request found it.
NoEntry == [channel |-> None, query |-> None, guard |-> FALSE,
            block_check |-> FALSE, answered |-> FALSE, pre |-> UserSession]

\* One pass of APIAggregator.query over the session: the head, and on the
\* research path the history append when the pass succeeds (ok).
QueryPass(sess, q, hit, ok) ==
    LET head == AggHead(sess, q, hit)
    IN  IF head.pc = "dispatch" /\ ok
        THEN append_chat(append_chat(head.session, "user", q.id),
                         "assistant", "answer")
        ELSE head.session

\* chat_text: steps 1 to 3, then the pipeline.
ViaChatText(q, hit, ok) ==
    /\ epCount < MaxEntries
    /\ epCount' = epCount + 1
    /\ epSess' = IF Moderate(epSess, q, 0).decision = "pipeline"
                 THEN QueryPass(Moderate(epSess, q, 0).session, q, hit, ok)
                 ELSE Moderate(epSess, q, 0).session
    /\ epOp' = [channel |-> "chat_text", query |-> q.id, guard |-> TRUE,
                block_check |-> Moderate(epSess, q, 0).ib.called,
                answered |-> Moderate(epSess, q, 0).decision = "pipeline" /\ ok,
                pre |-> epSess]
    /\ UNCHANGED entryFrame

\* chat_audio (by way of query_audio), _handle_text_message and
\* _handle_audio_message: the text goes straight to APIAggregator.query.
Unguarded(channel, q, hit, ok) ==
    /\ epCount < MaxEntries
    /\ epCount' = epCount + 1
    /\ epSess' = QueryPass(epSess, q, hit, ok)
    /\ epOp' = [channel |-> channel, query |-> q.id, guard |-> FALSE,
                block_check |-> FALSE, answered |-> ok, pre |-> epSess]
    /\ UNCHANGED entryFrame

NextEntry ==
    \/ \E q \in ChatQueries, hit \in BOOLEAN, ok \in BOOLEAN : ViaChatText(q, hit, ok)
    \/ \E channel \in Channels \ {"chat_text"}, q \in ChatQueries,
          hit \in BOOLEAN, ok \in BOOLEAN : Unguarded(channel, q, hit, ok)

\* ----------------------------------------------------------- rate limiter
\* RateLimiter.dispatch, called for every HTTP request.  From its first line
\* to the await of call_next nothing suspends, so the cleaning, the check and
\* the recording of one request run as one step, also while other requests of
\* the same address wait in call_next.
MaxRateTicks == 4
MaxRateRequests == 5

\* self.window = 60  # seconds
window == 60

\* The clock is read at the start, half a window later, a window later, ...
RateStep == window \div 2

ClientIps == {"ip1", "ip2"}

\* requests_per_minute, as the middleware is constructed with it
RateLimits == {1, 2}

RECURSIVE Recent(_, _)
\* [t for t in self._store[client_ip] if now - t < self.window]
Recent(times, t_now) ==
    IF times = <<>> THEN <<>>
    ELSE IF t_now - Head(times) < window
         THEN <<Head(times)>> \o Recent(Tail(times), t_now)
         ELSE Recent(Tail(times), t_now)

\* The request is recorded before the rate is checked.
dispatch_records_first(store, client_ip, t_now, requests_per_minute) ==
    LET cleaned == Recent(store[client_ip], t_now)
    IN  [admitted |-> Len(cleaned) < requests_per_minute,
         store |-> [store EXCEPT ![client_ip] = Append(cleaned, t_now)]]

\* dispatch up to call_next: old entries are dropped, the rate is checked (429
\* when it is reached), the request is recorded.
dispatch(store, client_ip, t_now, requests_per_minute) ==
    LET cleaned == Recent(store[client_ip], t_now)
    IN  IF Len(cleaned) >= requests_per_minute
        THEN [admitted |-> FALSE, store |-> [store EXCEPT ![client_ip] = cleaned]]
        ELSE [admitted |-> TRUE,
              store |-> [store EXCEPT ![client_ip] = Append(cleaned, t_now)]]

\* The middleware: its limit (0: not yet constructed), its store, the clock,
\* the requests that wait in call_next, the number of requests so far, and
\* the latest request (its address, the time, whether it was admitted, the
\* store as it found it).  admitted_at: per address the times of all requests
\* admitted so far, kept by the observer.
NoLimiter ==
    [requests_per_minute |-> 0, store |-> [ip \in ClientIps |-> <<>>],
     t_now |-> 0, in_call_next |-> [ip \in ClientIps |-> 0], count |-> 0,
     ip |-> None, admitted |-> FALSE, pre |-> [ip \in ClientIps |-> <<>>],
     admitted_at |-> [ip \in ClientIps |-> <<>>]]

\* app.add_middleware(RateLimiter, requests_per_minute=...)
NewRateLimiter(requests_per_minute) ==
    /\ rl.requests_per_minute = 0
    /\ rl' = [rl EXCEPT !.requests_per_minute = requests_per_minute]
    /\ UNCHANGED rateFrame

\* A request of an address arrives.
RateRequest(client_ip) ==
    /\ rl.requests_per_minute > 0
    /\ rl.count < MaxRateRequests
    /\ rl' = [rl EXCEPT
          !.store = dispatch(rl.store, client_ip, rl.t_now,
                             rl.requests_per_minute).store,
          !.admitted = dispatch(rl.store, client_ip, rl.t_now,
                                rl.requests_per_minute).admitted,
          !.ip = client_ip,
          !.pre = rl.store,
          !.count = @ + 1,
          !.in_call_next[client_ip] =
              IF dispatch(rl.store, client_ip, rl.t_now,
                          rl.requests_per_minute).admitted THEN @ + 1 ELSE @,
          !.admitted_at[client_ip] =
              IF dispatch(rl.store, client_ip, rl.t_now,
                          rl.requests_per_minute).admitted
              THEN Append(@, rl.t_now) ELSE @]
    /\ UNCHANGED rateFrame

\* call_next returns for a request of an address.
CallNextReturns(client_ip) ==
    /\ rl.in_call_next[client_ip] > 0
    /\ rl' = [rl EXCEPT !.in_call_next[client_ip] = @ - 1, !.ip = None,
                        !.admitted = FALSE, !.pre = rl.store]
    /\ UNCHANGED rateFrame

RateTick ==
    /\ rl.requests_per_minute > 0
    /\ rl.t_now + RateStep <= MaxRateTicks * RateStep
    /\ rl' = [rl EXCEPT !.t_now = @ + RateStep, !.ip = None, !.admitted = FALSE,
                        !.pre = rl.store]
    /\ UNCHANGED rateFrame

NextRate ==
    \/ \E requests_per_minute \in RateLimits : NewRateLimiter(requests_per_minute)
    \/ \E client_ip \in ClientIps : RateRequest(client_ip)
    \/ \E client_ip \in ClientIps : CallNextReturns(client_ip)
    \/ RateTick

\* --------------------------------------------------------- multi-query fan-out
\* APIAggregator.query on a cache miss, from _expand_queries to the tasks dict.
\* INTENT_PROVIDERS: the providers listed for an intent, in their order.
INTENT_PROVIDERS(intent) ==
    CASE intent = "greeting" -> <<>>
      [] intent = "scheme_discovery" ->
            <<"tavily", "ddg", "nvidia", "openai", "gemini", "wikipedia">>
      [] intent = "eligibility_check" -> <<"tavily", "nvidia", "openai", "gemini", "ddg">>
      [] intent = "application_help" -> <<"tavily", "ddg", "openai", "gemini">>
      [] intent = "latest_news" -> <<"tavily", "news", "ddg", "openai">>
      [] intent = "general_knowledge" ->
            <<"tavily", "wikipedia", "ddg", "openai", "gemini">>
      [] intent = "comparison" -> <<"tavily", "nvidia", "openai", "gemini", "wikipedia">>
      [] intent = "documents" -> <<"tavily", "ddg", "openai", "gemini">>

\* The intents of a query that is no greeting.
ResearchIntents ==
    {"scheme_discovery", "eligibility_check", "application_help", "latest_news",
     "general_knowledge", "comparison", "documents"}

\* _get_providers: the registry; openai is in it when
\* settings.enable_openai_research_provider is set.
Registry(enable_openai) ==
    {"tavily", "ddg", "wikipedia", "news", "nvidia", "gemini"}
        \cup (IF enable_openai THEN {"openai"} ELSE {})

\* The providers whose availability varies here; the others are available.
Doubtful == {"tavily", "ddg", "openai", "news"}

\* selected: the listed providers that are registered and available, in the
\* order of the list.
Selected(provider_keys, providers, available) ==
    SelectSeq2(provider_keys, providers \cap available)

\* _expand_queries: the original query; with a state the state query; the
\* sector query or else the central query; with user types the user-type
\* query; the first four of them.  A sub-query is named by what it is built
\* from.
_expand_queries(base_query, state, sector, user_types) ==
    LET queries ==
            <<[kind |-> "base", query |-> base_query]>>
            \o (IF state # NoInfo
                THEN <<[kind |-> "state", query |-> base_query]>> ELSE <<>>)
            \o (IF sector # None
                THEN <<[kind |-> "sector", query |-> sector]>>
                ELSE <<[kind |-> "central", query |-> base_query]>>)
            \o (IF user_types # <<>>
                THEN <<[kind |-> "user_type", query |-> base_query]>> ELSE <<>>)
    IN  SubSeq(queries, 1, Min(Len(queries), 4))

\* Every sub-query goes to every selected provider.
TasksFor_all_providers(selected, q_idx, sub_q) ==
    [i \in 1..Len(selected) |-> [key |-> TaskKey(selected[i], q_idx), query |-> sub_q]]

\* The body of the loop for one sub-query: the create_task calls, in order.
TasksFor(selected, q_idx, sub_q) ==
    IF q_idx = 0
    THEN [i \in 1..Len(selected) |->
             [key |-> TaskKey(selected[i], q_idx), query |-> sub_q]]
    ELSE IF \E i \in 1..Len(selected) : selected[i] = "tavily"
    THEN <<[key |-> TaskKey("tavily", q_idx), query |-> sub_q]>>
    ELSE IF \E i \in 1..Len(selected) : selected[i] = "ddg"
    THEN <<[key |-> TaskKey("ddg", q_idx), query |-> sub_q]>>
    ELSE <<>>

RECURSIVE CreateTasks(_, _, _)
\* for q_idx, sub_q in enumerate(sub_queries): the create_task calls of the
\* whole loop, in order, from index q_idx on.
CreateTasks(selected, sub_queries, q_idx) ==
    IF q_idx >= Len(sub_queries) THEN <<>>
    ELSE TasksFor(selected, q_idx, sub_queries[q_idx + 1])
            \o CreateTasks(selected, sub_queries, q_idx + 1)

\* One fan-out: what it was given and what it made.
NoFanOut == [op |-> "none", intent |-> None, enable_openai |-> FALSE,
             available |-> {}, selected |-> <<>>, sub_queries |-> <<>>,
             created |-> <<>>]

FanOut(intent, enable_openai, available, state, sector, user_types) ==
    /\ foCall.op = "none"
    /\ foCall' =
          [op |-> "fan-out", intent |-> intent, enable_openai |-> enable_openai,
           available |-> available,
           selected |-> Selected(INTENT_PROVIDERS(intent), Registry(enable_openai),
                                 available),
           sub_queries |-> _expand_queries("q", state, sector, user_types),
           created |->
               CreateTasks(Selected(INTENT_PROVIDERS(intent),
                                    Registry(enable_openai), available),
                           _expand_queries("q", state, sector, user_types), 0)]
    /\ UNCHANGED fanFrame

\* Another request follows.
FanOutEnds ==
    /\ foCall.op # "none"
    /\ foCall' = NoFanOut
    /\ UNCHANGED fanFrame

NextFanOut ==
    \/ \E intent \in ResearchIntents, enable_openai \in BOOLEAN,
          down \in SUBSET Doubtful, state \in StateInfos \cup {NoInfo},
          sector \in {None, "housing"}, user_types \in {<<>>, <<"farmer">>} :
            FanOut(intent, enable_openai, Registry(enable_openai) \ down,
                   state, sector, user_types)
    \/ FanOutEnds

\* ------------------------------------------------------ Settings.all_openai_keys
\* An environment value is a text, a sequence of characters.
MaxCsvLen == 3

\* The values given to OPENAI_API_KEY, OPENAI_API_KEY_2 and OPENAI_API_KEY_3.
KeyTexts == {<<>>, <<"a">>, <<"b">>, <<" ", "a">>, <<" ">>}

\* The characters OPENAI_API_KEYS_CSV is written with.
CsvChars == {"a", "b", ",", " "}

NumberedNames == {"openai_api_key", "openai_api_key_2", "openai_api_key_3"}

RECURSIVE SplitOn(_, _, _)
\* str.split(sep): the pieces between the separators, empty ones included;
\* piece is the piece being read.
SplitOn(s, sep, piece) ==
    IF s = <<>> THEN <<piece>>
    ELSE IF Head(s) = sep THEN <<piece>> \o SplitOn(Tail(s), sep, <<>>)
    ELSE SplitOn(Tail(s), sep, Append(piece, Head(s)))

\* raw_keys: the three numbered keys, then the stripped entries of the list
\* when the list is not empty.
raw_keys(settings) ==
    <<settings.openai_api_key, settings.openai_api_key_2, settings.openai_api_key_3>>
    \o (IF settings.openai_api_keys_csv # <<>>
        THEN LET pieces == SplitOn(settings.openai_api_keys_csv, ",", <<>>)
             IN  [i \in 1..Len(pieces) |-> Strip(pieces[i])]
        ELSE <<>>)

RECURSIVE Ordered(_, _)
\* The loop over raw_keys: empty keys and keys already seen are skipped.
Ordered(keys, seen) ==
    IF keys = <<>> THEN <<>>
    ELSE IF Head(keys) = <<>> THEN Ordered(Tail(keys), seen)
    ELSE IF Head(keys) \in seen THEN Ordered(Tail(keys), seen)
    ELSE <<Head(keys)>> \o Ordered(Tail(keys), seen \cup {Head(keys)})

\* Every key that is not empty is kept, seen or not.
all_openai_keys_keeps_seen(settings) ==
    SelectSeq(raw_keys(settings), LAMBDA k : k # <<>>)

\* Settings.all_openai_keys
all_openai_keys(settings) ==
    Ordered(raw_keys(settings), {})

\* Settings() with no OpenAI variable in the environment, and no read yet.
NoSettings ==
    [openai_api_key |-> <<>>, openai_api_key_2 |-> <<>>, openai_api_key_3 |-> <<>>,
     openai_api_keys_csv |-> <<>>, read |-> FALSE, keys |-> <<>>]

\* The environment gives a numbered key a value; the settings are built anew.
SetNumberedKey(name, value) ==
    /\ oa' = [oa EXCEPT ![name] = value, !.read = FALSE, !.keys = <<>>]
    /\ UNCHANGED keysFrame

\* OPENAI_API_KEYS_CSV is one character longer.
CsvGrows(c) ==
    /\ Len(oa.openai_api_keys_csv) < MaxCsvLen
    /\ oa' = [oa EXCEPT !.openai_api_keys_csv = Append(@, c),
                        !.read = FALSE, !.keys = <<>>]
    /\ UNCHANGED keysFrame

\* settings.all_openai_keys is read.
ReadKeys ==
    /\ ~oa.read
    /\ oa' = [oa EXCEPT !.read = TRUE, !.keys = all_openai_keys(oa)]
    /\ UNCHANGED keysFrame

NextKeys ==
    \/ \E name \in NumberedNames, value \in KeyTexts : SetNumberedKey(name, value)
    \/ \E c \in CsvChars : CsvGrows(c)
    \/ ReadKeys

\* ------------------------------------------------- domain_reliability, in full
\* A domain is a text, a sequence of characters.  DOMAIN_TRUST in the order of
\* the dict, scores in thousandths.
DOMAIN_TRUST ==
    <<
      [name |-> <<"m", "y", "s", "c", "h", "e", "m", "e", ".", "g", "o", "v", ".", "i", "n">>,
       score |-> 1000],
      [name |-> <<"i", "n", "d", "i", "a", ".", "g", "o", "v", ".", "i", "n">>,
       score |-> 1000],
      [name |-> <<"p", "m", "k", "i", "s", "a", "n", ".", "g", "o", "v", ".", "i", "n">>,
       score |-> 1000],
      [name |-> <<"p", "m", "j", "a", "y", ".", "g", "o", "v", ".", "i", "n">>,
       score |-> 1000],
      [name |-> <<"n", "r", "e", "g", "a", ".", "n", "i", "c", ".", "i", "n">>,
       score |-> 1000],
      [name |-> <<"p", "m", "a", "y", "g", ".", "n", "i", "c", ".", "i", "n">>,
       score |-> 1000],
      [name |-> <<"p", "m", "a", "y", "m", "i", "s", ".", "g", "o", "v", ".", "i", "n">>,
       score |-> 1000],
      [name |-> <<"p", "i", "b", ".", "g", "o", "v", ".", "i", "n">>,
       score |-> 970],
      [name |-> <<"n", "i", "c", ".", "i", "n">>,
       score |-> 970],
      [name |-> <<"t", "n", ".", "g", "o", "v", ".", "i", "n">>,
       score |-> 1000],
      [name |-> <<"t", "a", "h", "d", "c", "o", ".", "t", "n", ".", "g", "o", "v", ".", "i", "n">>,
       score |-> 1000],
      [name |-> <<"t", "n", "a", "u", ".", "a", "c", ".", "i", "n">>,
       score |-> 970],
      [name |-> <<"s", "i", "p", "c", "o", "t", ".", "c", "o", "m">>,
       score |-> 950],
      [name |-> <<"t", "n", "s", "o", "c", "i", "a", "l", "w", "e", "l", "f", "a", "r", "e", ".", "t", "n", ".", "g", "o", "v", ".", "i", "n">>,
       score |-> 970],
      [name |-> <<"t", "n", "s", "c", "h", "e", "m", "e", "s", ".", "t", "n", ".", "g", "o", "v", ".", "i", "n">>,
       score |-> 1000],
      [name |-> <<"a", "p", ".", "g", "o", "v", ".", "i", "n">>,
       score |-> 1000],
      [name |-> <<"t", "s", ".", "g", "o", "v", ".", "i", "n">>,
       score |-> 1000],
      [name |-> <<"t", "s", "i", "i", "c", ".", "t", "e", "l", "a", "n", "g", "a", "n", "a", ".", "g", "o", "v", ".", "i", "n">>,
       score |-> 950],
      [name |-> <<"k", "a", "r", "n", "a", "t", "a", "k", "a", ".", "g", "o", "v", ".", "i", "n">>,
       score |-> 1000],
      [name |-> <<"k", "e", "r", "a", "l", "a", ".", "g", "o", "v", ".", "i", "n">>,
       score |-> 1000],
      [name |-> <<"s", "e", "v", "a", "s", "i", "n", "d", "h", "u", ".", "k", "a", "r", "n", "a", "t", "a", "k", "a", ".", "g", "o", "v", ".", "i", "n">>,
       score |-> 970],
      [name |-> <<"m", "a", "h", "a", "r", "a", "s", "h", "t", "r", "a", ".", "g", "o", "v", ".", "i", "n">>,
       score |-> 1000],
      [name |-> <<"m", "a", "h", "a", "d", "b", "t", ".", "m", "a", "h", "a", "r", "a", "s", "h", "t", "r", "a", ".", "g", "o", "v", ".", "i", "n">>,
       score |-> 970],
      [name |-> <<"g", "u", "j", "a", "r", "a", "t", ".", "g", "o", "v", ".", "i", "n">>,
       score |-> 1000],
      [name |-> <<"u", "p", ".", "g", "o", "v", ".", "i", "n">>,
       score |-> 1000],
      [name |-> <<"b", "i", "h", "a", "r", ".", "g", "o", "v", ".", "i", "n">>,
       score |-> 1000],
      [name |-> <<"s", "s", "p", "y", "-", "u", "p", ".", "g", "o", "v", ".", "i", "n">>,
       score |-> 970],
      [name |-> <<"w", "b", ".", "g", "o", "v", ".", "i", "n">>,
       score |-> 1000],
      [name |-> <<"o", "d", "i", "s", "h", "a", ".", "g", "o", "v", ".", "i", "n">>,
       score |-> 1000],
      [name |-> <<"r", "a", "j", "a", "s", "t", "h", "a", "n", ".", "g", "o", "v", ".", "i", "n">>,
       score |-> 1000],
      [name |-> <<"m", "p", ".", "g", "o", "v", ".", "i", "n">>,
       score |-> 1000],
      [name |-> <<"c", "g", "s", "t", "a", "t", "e", ".", "g", "o", "v", ".", "i", "n">>,
       score |-> 1000],
      [name |-> <<".", "g", "o", "v", ".", "i", "n">>,
       score |-> 1000],
      [name |-> <<".", "n", "i", "c", ".", "i", "n">>,
       score |-> 970],
      [name |-> <<"w", "i", "k", "i", "p", "e", "d", "i", "a", ".", "o", "r", "g">>,
       score |-> 800],
      [name |-> <<"b", "r", "i", "t", "a", "n", "n", "i", "c", "a", ".", "c", "o", "m">>,
       score |-> 800],
      [name |-> <<"t", "h", "e", "h", "i", "n", "d", "u", ".", "c", "o", "m">>,
       score |-> 720],
      [name |-> <<"n", "d", "t", "v", ".", "c", "o", "m">>,
       score |-> 700],
      [name |-> <<"l", "i", "v", "e", "m", "i", "n", "t", ".", "c", "o", "m">>,
       score |-> 700],
      [name |-> <<"e", "c", "o", "n", "o", "m", "i", "c", "t", "i", "m", "e", "s", ".", "c", "o", "m">>,
       score |-> 700],
      [name |-> <<"h", "i", "n", "d", "u", "s", "t", "a", "n", "t", "i", "m", "e", "s", ".", "c", "o", "m">>,
       score |-> 670],
      [name |-> <<"t", "i", "m", "e", "s", "o", "f", "i", "n", "d", "i", "a", ".", "c", "o", "m">>,
       score |-> 670],
      [name |-> <<"m", "o", "n", "e", "y", "c", "o", "n", "t", "r", "o", "l", ".", "c", "o", "m">>,
       score |-> 650],
      [name |-> <<"b", "u", "s", "i", "n", "e", "s", "s", "s", "t", "a", "n", "d", "a", "r", "d", ".", "c", "o", "m">>,
       score |-> 700],
      [name |-> <<"f", "i", "n", "a", "n", "c", "i", "a", "l", "e", "x", "p", "r", "e", "s", "s", ".", "c", "o", "m">>,
       score |-> 680],
      [name |-> <<"n", "e", "w", "s", "1", "8", ".", "c", "o", "m">>,
       score |-> 630],
      [name |-> <<"n", "v", "i", "d", "i", "a", ".", "c", "o", "m">>,
       score |-> 750],
      [name |-> <<"g", "o", "o", "g", "l", "e", ".", "c", "o", "m">>,
       score |-> 750],
      [name |-> <<"_", "d", "e", "f", "a", "u", "l", "t">>,
       score |-> 400]
    >>

\* needle in text
Contains(text, needle) ==
    \E i \in 0..(Len(text) - Len(needle)) : SubSeq(text, i + 1, i + Len(needle)) = needle

\* text.endswith(suffix)
EndsWith(text, suffix) ==
    /\ Len(suffix) <= Len(text)
    /\ SubSeq(text, Len(text) - Len(suffix) + 1, Len(text)) = suffix

\* domain_reliability on the text of a domain: the default for no domain; the
\* score of the first entry (the default entry left out) that is part of the
\* lower-cased domain; else by the ending of the domain.  The operator
\* domain_reliability above tabulates it for the domains of the scorer.
trust_of(domain) ==
    LET d == Lower(domain)
        hits == {i \in DOMAIN DOMAIN_TRUST :
                    Head(DOMAIN_TRUST[i].name) # "_" /\ Contains(d, DOMAIN_TRUST[i].name)}
    IN  IF domain = <<>> THEN DEFAULT_TRUST
        ELSE IF hits # {}
        THEN DOMAIN_TRUST[CHOOSE i \in hits : \A j \in hits : i <= j].score
        ELSE IF EndsWith(d, <<".", "g", "o", "v", ".", "i", "n">>)
                \/ EndsWith(d, <<".", "n", "i", "c", ".", "i", "n">>) THEN 1000
        ELSE IF EndsWith(d, <<".", "g", "o", "v">>) THEN 900
        ELSE IF EndsWith(d, <<".", "e", "d", "u">>)
                \/ EndsWith(d, <<".", "a", "c", ".", "i", "n">>) THEN 850
        ELSE IF EndsWith(d, <<".", "o", "r", "g">>) THEN 700
        ELSE DEFAULT_TRUST

\* The entries of the table that name a domain or a suffix.
Listed == {i \in DOMAIN DOMAIN_TRUST : Head(DOMAIN_TRUST[i].name) # "_"}

\* Hosts no entry names.
OtherHosts ==
    { <<"e", "x", "a", "m", "p", "l", "e", ".", "c", "o", "m">>,
      <<"e", "x", "a", "m", "p", "l", "e", ".", "o", "r", "g">>,
      <<"m", "i", "t", ".", "e", "d", "u">>,
      <<"d", "a", "t", "a", ".", "g", "o", "v">>,
      <<"p", "a", "n", "i", "c", ".", "i", "n">> }

\* What a domain is made of here: a listed name or another host, with
\* something before it (nothing, a subdomain, a letter, a subdomain in upper
\* case) and something after it (nothing, or a foreign registrable domain).
Hosts == {DOMAIN_TRUST[i].name : i \in Listed} \cup OtherHosts

Befores == {<<>>, <<"w", "w", "w", ".">>, <<"x">>, <<"T", "N", ".">>}

Afters == {<<>>, <<".", "e", "x", "a", "m", "p", "l", "e", ".", "c", "o", "m">>}

NoTrCall == [op |-> "none", domain |-> <<>>, host |-> <<>>, before |-> <<>>,
             after |-> <<>>, score |-> 0]

\* One call of domain_reliability.
DomainReliability(before, host, after) ==
    /\ trCall.op = "none"
    /\ Head(host) = "." => before # <<>>
    /\ trCall' = [op |-> "called", domain |-> before \o host \o after,
                  host |-> host, before |-> before, after |-> after,
                  score |-> trust_of(before \o host \o after)]
    /\ UNCHANGED trustFrame

NextTrust ==
    \E before \in Befores, host \in Hosts, after \in Afters :
        DomainReliability(before, host, after)

\* ------------------------------------- chat history under concurrent requests
\* Requests of one session, two of them in flight at a time.  A request is
\* numbered as it arrives; its query and its answer carry its number.  A step
\* runs from one suspension of a coroutine to the next.
MaxHistRequests == 17

\* The answer is saved before the query.
SaveExchange_answer_first(sess, user_query, answer) ==
    append_chat(append_chat(sess, "assistant", answer), "user", user_query)

\* query, lines 174-175 and 293-294: the query, then the answer, with no await
\* in between.
SaveExchange(sess, user_query, answer) ==
    append_chat(append_chat(sess, "user", user_query), "assistant", answer)

\* A request arrives and hits the cache: its exchange is saved before the
\* coroutine is suspended again.
HistHit(r) ==
    /\ hsReqs[r] = 0
    /\ hsCount < MaxHistRequests
    /\ hsCount' = hsCount + 1
    /\ hs' = SaveExchange(hs, hsCount + 1, hsCount + 1)
    /\ UNCHANGED <<hsReqs, histFrame>>

\* A request arrives and misses: it is suspended in asyncio.wait and then in
\* llm.generate.
HistMiss(r) ==
    /\ hsReqs[r] = 0
    /\ hsCount < MaxHistRequests
    /\ hsCount' = hsCount + 1
    /\ hsReqs' = [hsReqs EXCEPT ![r] = hsCount + 1]
    /\ UNCHANGED <<hs, histFrame>>

\* llm.generate returns to a suspended request, which saves its exchange.
HistGenerated(r) ==
    /\ hsReqs[r] # 0
    /\ hs' = SaveExchange(hs, hsReqs[r], hsReqs[r])
    /\ hsReqs' = [hsReqs EXCEPT ![r] = 0]
    /\ UNCHANGED <<hsCount, histFrame>>

NextHist ==
    \/ \E r \in Slots : HistHit(r)
    \/ \E r \in Slots : HistMiss(r)
    \/ \E r \in Slots : HistGenerated(r)

\* ------------------------------------------- research cache, thread by thread
\* An enabled cache called from two threads.  self._lock is held by one thread
\* at a time; a step of a thread is the acquisition of the lock, one
\* `with self._lock:` block up to its release, or what get does between its
\* two blocks.
Threads == {1, 2}
MaxThreadCalls == 3

\* self._lock as the set of the threads that hold it.
Unlocked == {}

ThreadInputs == {inp \in CacheInputs : inp.language # NoText}

\* A thread outside the cache.
Idle == [pc |-> "idle", op |-> "none", inp |-> <<>>, payload |-> PyNone,
         now |-> 0, payload_json |-> json_dumps(PyNone), result |-> PyNone]

\* get, lines 93-96, and put, lines 137-143: the key and the clock are read
\* before the lock is asked for.
ThreadCalls(t, op, inp, payload) ==
    /\ th[t].pc = "idle"
    /\ thCalls < MaxThreadCalls
    /\ thCalls' = thCalls + 1
    /\ th' = [th EXCEPT ![t] = [Idle EXCEPT !.pc = "enter", !.op = op,
                                            !.inp = inp, !.payload = payload,
                                            !.now = thNow]]
    /\ UNCHANGED <<thTable, thNow, thLock, threadFrame>>

\* with self._lock: of put (145), of get's read (98) and of get's purge (122).
ThreadAcquires(t) ==
    /\ th[t].pc \in {"enter", "purge"}
    /\ thLock = Unlocked
    /\ thLock' = {t}
    /\ th' = [th EXCEPT ![t].pc = IF @ = "enter" THEN "locked" ELSE "purge_locked"]
    /\ UNCHANGED <<thTable, thNow, thCalls, threadFrame>>

\* put, lines 145-170.
ThreadPuts(t) ==
    /\ th[t].pc = "locked" /\ th[t].op = "put"
    /\ thLock = {t}
    /\ thTable' = put(thTable, th[t].inp, th[t].payload, th[t].now)
    /\ thLock' = Unlocked
    /\ th' = [th EXCEPT ![t].pc = "idle"]
    /\ UNCHANGED <<thNow, thCalls, threadFrame>>

\* get, lines 98-116: no row, an expired row, or the row's payload_json taken
\* out of the block.
ThreadReads(t) ==
    /\ th[t].pc = "locked" /\ th[t].op = "get"
    /\ thLock = {t}
    /\ thLock' = Unlocked
    /\ LET key == KeyOf(th[t].inp)
           rows == RowsOf(thTable, key)
           row == CHOOSE r \in rows : TRUE
       IN  IF rows = {}
           THEN /\ th' = [th EXCEPT ![t].pc = "idle", ![t].result = PyNone]
                /\ thTable' = thTable
           ELSE IF row.expires_at < th[t].now
           THEN /\ th' = [th EXCEPT ![t].pc = "idle", ![t].result = PyNone]
                /\ thTable' = thTable \ rows
           ELSE /\ th' = [th EXCEPT ![t].pc = "parse",
                                    ![t].payload_json = row.payload_json]
                /\ thTable' = thTable
    /\ UNCHANGED <<thNow, thCalls, threadFrame>>

\* get, lines 118-121: json.loads outside the lock.
ThreadParses(t) ==
    /\ th[t].pc = "parse"
    /\ th' = [th EXCEPT ![t].pc = IF json_loads(th[t].payload_json) = JSONDecodeError
                                  THEN "purge" ELSE "idle",
                        ![t].result = IF json_loads(th[t].payload_json) = JSONDecodeError
                                      THEN PyNone
                                      ELSE json_loads(th[t].payload_json)]
    /\ UNCHANGED <<thTable, thNow, thLock, thCalls, threadFrame>>

\* get, lines 122-126: DELETE ... WHERE cache_key = ?, then None.
ThreadPurges(t) ==
    /\ th[t].pc = "purge_locked"
    /\ thLock = {t}
    /\ thTable' = thTable \ RowsOf(thTable, KeyOf(th[t].inp))
    /\ thLock' = Unlocked
    /\ th' = [th EXCEPT ![t].pc = "idle", ![t].result = PyNone]
    /\ UNCHANGED <<thNow, thCalls, threadFrame>>

\* The payload_json of a stored row is rewritten from outside to a text that
\* is no JSON.
ThreadDamage(inp) ==
    /\ RowsOf(thTable, KeyOf(inp)) # {}
    /\ \E r \in RowsOf(thTable, KeyOf(inp)) : json_loads(r.payload_json) # JSONDecodeError
    /\ thTable' = {IF r.cache_key = KeyOf(inp)
                   THEN [r EXCEPT !.payload_json = [kind |-> "malformed", val |-> 0]]
                   ELSE r : r \in thTable}
    /\ UNCHANGED <<thNow, thLock, th, thCalls, threadFrame>>

ThreadTick ==
    /\ thNow + ttl_seconds <= 2 * ttl_seconds
    /\ thNow' = thNow + ttl_seconds
    /\ UNCHANGED <<thTable, thLock, th, thCalls, threadFrame>>

NextThreads ==
    \/ \E t \in Threads, inp \in ThreadInputs : ThreadCalls(t, "get", inp, PyNone)
    \/ \E t \in Threads, inp \in ThreadInputs, payload \in CachePayloads :
          ThreadCalls(t, "put", inp, payload)
    \/ \E t \in Threads : ThreadAcquires(t)
    \/ \E t \in Threads : ThreadPuts(t)
    \/ \E t \in Threads : ThreadReads(t)
    \/ \E t \in Threads : ThreadParses(t)
    \/ \E t \in Threads : ThreadPurges(t)
    \/ \E inp \in ThreadInputs : ThreadDamage(inp)
    \/ ThreadTick

\* ---------------------------------------------------------- specifications
\* Each part is followed on its own; the parts not followed stay as they start.
DispatchQuiet ==
    /\ tasks = <<>> /\ dclock = 0 /\ dpc = "idle"
    /\ responses = <<>> /\ merged = <<>> /\ returned_at = -1

CacheQuiet ==
    /\ cnow = 0 /\ enabled = TRUE /\ table = {}
    /\ cacheOp = NoCacheOp /\ lastPut = [k \in CacheKeys |-> NoPut]

FingerprintQuiet == fpCall = NoFpCall

ScorerQuiet == scCall = NoScCall

VerifyQuiet == fvCall = NoFvCall /\ rkCall = NoRkCall

LLMQuiet == gen = NoGen

TiersQuiet == tier = NoTier

GuardQuiet == tgCall = NoTgCall

StoreQuiet == ss = UserSession /\ ssOp = NoSsOp /\ ssCount = 0

ResolveQuiet == rsSess = UserSession /\ rsOp = NoRsOp /\ rsNamed = NoInfo

PipeQuiet == pq = NoQuery /\ pqSess = UserSession /\ pqTable = {}

EntryQuiet == epSess = UserSession /\ epOp = NoEntry /\ epCount = 0

RateQuiet == rl = NoLimiter

FanQuiet == foCall = NoFanOut

KeysQuiet == oa = NoSettings

TrustQuiet == trCall = NoTrCall

ThreadsQuiet ==
    /\ thTable = {} /\ thNow = 0 /\ thLock = Unlocked
    /\ th = [t \in Threads |-> Idle] /\ thCalls = 0

HistQuiet == hs = UserSession /\ hsReqs = [r \in Slots |-> 0] /\ hsCount = 0


Init ==
    /\ now = 0
    /\ sessions = [sid \in SessionIds |-> UserSession]
    /\ reqs = [r \in Slots |-> IdleReq]
    /\ ev = NoEv
    /\ warnsGiven = [sid \in SessionIds |-> 0]
    /\ thirdWarnAt = [sid \in SessionIds |-> -1]
    /\ arrivals = 0
    /\ DispatchQuiet /\ CacheQuiet /\ FingerprintQuiet /\ ScorerQuiet
    /\ VerifyQuiet /\ LLMQuiet /\ TiersQuiet /\ GuardQuiet /\ StoreQuiet
    /\ ResolveQuiet /\ PipeQuiet /\ EntryQuiet /\ RateQuiet /\ FanQuiet
    /\ KeysQuiet /\ TrustQuiet /\ HistQuiet /\ ThreadsQuiet


Spec == Init /\ [][Next]_vars

SpecDispatch == Init /\ [][NextDispatch]_vars

SpecCache == Init /\ [][NextCache]_vars

SpecDamage == Init /\ [][NextDamage]_vars

SpecThreads == Init /\ [][NextThreads]_vars

SpecHist == Init /\ [][NextHist]_vars

SpecTrust == Init /\ [][NextTrust]_vars

SpecCanonical == Init /\ [][NextCanonical]_vars

SpecLowBudget == Init /\ [][NextLowBudget]_vars

SpecMalformed == Init /\ [][NextMalformed]_vars

SpecFingerprint == Init /\ [][NextFingerprint]_vars

SpecScorer == Init /\ [][NextScorer]_vars

SpecFilter == Init /\ [][NextFilter]_vars

SpecRank == Init /\ [][NextRank]_vars

\* Every awaited completion call ends, with a response or an exception.
SpecLLM == Init /\ [][NextLLM]_vars /\ WF_vars(NextLLM)

\* Every await of chat_text ends.
SpecTiers == Init /\ [][NextTiers]_vars /\ WF_vars(NextTiers)

SpecGuard == Init /\ [][NextGuard]_vars

SpecStore == Init /\ [][NextStore]_vars

SpecResolve == Init /\ [][NextResolve]_vars

SpecPipe == Init /\ [][NextPipe]_vars

SpecMine == Init /\ [][NextMine]_vars

SpecEntry == Init /\ [][NextEntry]_vars

SpecRate == Init /\ [][NextRate]_vars

SpecFanOut == Init /\ [][NextFanOut]_vars

SpecKeys == Init /\ [][NextKeys]_vars

\* ------------------------------------------------------------------ claims

\* C1: in chat_text the third WARN query of a session sets a block (the
\* response is a blocked one and blocked_until is 3600 s ahead), and every
\* query of the session that arrives less than 3600 s after it, whatever its
\* verdict, gets a blocked response and does not reach APIAggregator.query.
C1_BlockedAfterThirdWarning ==
    ev.kind = "moderated" =>
        /\ ev.warn_no = MAX_WARNINGS =>
              /\ ev.response /\ ev.is_blocked /\ ~ev.agg
              /\ sessions[ev.session].blocked_until = now + BLOCK_DURATION_SECONDS
        /\ ev.in_block => ev.response /\ ev.is_blocked /\ ~ev.agg

\* An on-topic query that arrives after the third warning and before the hour
\* is over has been answered.
C1_Witness ==
    /\ ev.kind = "moderated" /\ ev.in_block /\ ev.verdict = "ALLOWED"
    /\ now > thirdWarnAt[ev.session]

\* C2: a request whose verdict is BLOCK, or whose session is actively blocked
\* (now < blocked_until), ends in the moderation step with a response and has
\* called neither APIAggregator.query nor a provider, the cache or a language
\* model; no frame of it is left to do so later.
C2_ModerationBlockShortCircuits ==
    (/\ ev.kind = "moderated"
     /\ \/ ev.verdict = "BLOCK"
        \/ ev.pre.blocked_until # 0 /\ now < ev.pre.blocked_until)
    => /\ ev.response
       /\ ~ev.agg /\ ~ev.providers /\ ~ev.cache /\ ~ev.llm
       /\ reqs[ev.slot].pc = "idle"

\* An on-topic query of an actively blocked session has been turned away.
C2_Witness ==
    /\ ev.kind = "moderated" /\ ev.verdict = "ALLOWED"
    /\ ev.pre.blocked_until # 0 /\ now < ev.pre.blocked_until

\* C3: is_blocked with blocked_until = 0 reports not blocked and changes
\* nothing; with now < blocked_until it reports blocked with remaining =
\* blocked_until - now > 0 and changes nothing; with blocked_until set and
\* now >= blocked_until it resets warnings and blocked_until to 0 and reports
\* not blocked.  A session is blocked only after three WARN queries counted
\* since the last expiry.
C3_IsBlockedCases ==
    /\ ev.ib.called =>
          /\ ev.ib.pre.blocked_until = 0 =>
                ~ev.ib.blocked /\ ev.ib.post = ev.ib.pre
          /\ (ev.ib.pre.blocked_until # 0 /\ now < ev.ib.pre.blocked_until) =>
                /\ ev.ib.blocked
                /\ ev.ib.remaining = ev.ib.pre.blocked_until - now
                /\ ev.ib.remaining > 0
                /\ ev.ib.post = ev.ib.pre
          /\ (ev.ib.pre.blocked_until # 0 /\ now >= ev.ib.pre.blocked_until) =>
                /\ ~ev.ib.blocked
                /\ ev.ib.post = [ev.ib.pre EXCEPT !.warnings = 0, !.blocked_until = 0]
    /\ \A sid \in SessionIds :
          sessions[sid].blocked_until # 0 => warnsGiven[sid] >= MAX_WARNINGS

\* An expired block has been reset and a first new warning given: the session
\* is not blocked.
C3_Witness ==
    /\ ev.ib.called /\ ev.ib.pre.blocked_until # 0 /\ now >= ev.ib.pre.blocked_until
    /\ ev.decision = "warned" /\ ev.warning_count = 1

\* C4: handling a query whose verdict is BLOCK leaves the session (warnings,
\* blocked_until, profile fields with the state, chat history) as it was, and
\* is_blocked and issue_warning are not called.
C4_BlockVerdictMutatesNothing ==
    (ev.kind = "moderated" /\ ev.verdict = "BLOCK") =>
        /\ sessions[ev.session] = ev.pre
        /\ ~ev.ib.called

\* The tasks that had ended with a response, in the order of the tasks dict.
RECURSIVE EndedKeys(_)
EndedKeys(ts) ==
    IF ts = <<>> THEN <<>>
    ELSE (IF Head(ts).status \in Finished THEN <<Head(ts).key>> ELSE <<>>)
         \o EndedKeys(Tail(ts))

\* C5: for a non-empty set of provider tasks, the wait is never pending past
\* the 28 s deadline; when the dispatcher goes on, it is no later than the
\* deadline, the responses are those of exactly the tasks that had ended with
\* one, every task that was still pending has been cancelled, and nothing is
\* raised into the caller, whatever the tasks did.
C5_DispatcherReturnsByDeadline ==
    /\ dpc = "waiting" => dclock <= WAIT_TIMEOUT
    /\ dpc = "raised" => tasks = <<>>
    /\ dpc = "merged" =>
          /\ returned_at <= WAIT_TIMEOUT
          /\ \A i \in 1..Len(tasks) :
                tasks[i].status \in Finished \cup {"raised", "cancelling", "cancelled"}
          /\ [i \in 1..Len(responses) |-> responses[i].key] = EndedKeys(tasks)
          /\ \A i \in 1..Len(responses) :
                \E j \in 1..Len(tasks) :
                    /\ tasks[j].key = responses[i].key
                    /\ responses[i].resp =
                          ProviderResponse(tasks[j].key, tasks[j].status)

\* The dispatcher went on at the deadline with the response of one task while
\* another, which never ended, was cancelled.
C5_Witness ==
    /\ dpc = "merged" /\ returned_at = WAIT_TIMEOUT
    /\ \E i \in 1..Len(tasks) : tasks[i].status = "cancelled"
    /\ \E i \in 1..Len(tasks) : tasks[i].status = "ok"
    /\ Len(responses) >= 1

OkAnswer(key) ==
    IF TaskAnswer(key) \in {None, ""} THEN <<>>
    ELSE <<LabelledAnswer(key, TaskAnswer(key))>>

\* What a successful task has to give, by collection.
PartOf(key, part) ==
    CASE part = "results" -> TaskResults(key)
      [] part = "images" -> TaskImages(key)
      [] part = "answers" -> OkAnswer(key)

RECURSIVE FlatOk(_, _)
\* The concatenation, in task order, of one collection over the tasks that
\* ended with success set.
FlatOk(ts, part) ==
    IF ts = <<>> THEN <<>>
    ELSE (IF Head(ts).status = "ok" THEN PartOf(Head(ts).key, part) ELSE <<>>)
         \o FlatOk(Tail(ts), part)

\* C6: the merged results, images and direct answers are exactly those of the
\* tasks that ended with success=true, concatenated in task order: a task that
\* raised, was cancelled on the deadline or answered success=false adds
\* nothing and takes nothing of a sibling away.
C6_OnlySuccessfulTasksMerged ==
    dpc = "merged" =>
        /\ merged.all_results = FlatOk(tasks, "results")
        /\ merged.all_images = FlatOk(tasks, "images")
        /\ merged.ai_answers = FlatOk(tasks, "answers")

\* A merge with a task that raised, one cancelled on the deadline, one that
\* answered success=false with results, and a successful one after them.
C6_Witness ==
    /\ dpc = "merged"
    /\ \E i, j, k, l \in 1..Len(tasks) :
          /\ tasks[i].status = "raised"
          /\ tasks[j].status \in {"cancelling", "cancelled"}
          /\ tasks[k].status = "fail_partial"
          /\ tasks[l].status = "ok" /\ l > i /\ l > j /\ l > k
    /\ merged.all_results # <<>>

C8_UpsertLastWriteWins ==
    /\ (enabled /\ cacheOp.op = "put" /\ lastPut[cacheOp.key].count >= 2) =>
          /\ Cardinality(RowsOf(table, cacheOp.key)) = 1
          /\ \A r \in RowsOf(table, cacheOp.key) :
                /\ json_loads(r.payload_json) = cacheOp.payload
                /\ r.created_at = cnow
                /\ r.expires_at = cnow + ttl_seconds
    /\ (/\ enabled /\ cacheOp.op = "get"
        /\ lastPut[cacheOp.key].count >= 2
        /\ cnow - lastPut[cacheOp.key].at < ttl_seconds) =>
          cacheOp.result = lastPut[cacheOp.key].payload

\* A put has met the row of an earlier put of the same key, made at an earlier
\* time with another payload.
C8_Witness ==
    /\ enabled /\ cacheOp.op = "put"
    /\ cacheOp.prior # NoRow
    /\ cacheOp.prior.created_at < cnow
    /\ json_loads(cacheOp.prior.payload_json) # cacheOp.payload
    /\ lastPut[cacheOp.key].count >= 2

\* Two profiles agree on the allow-listed fields: each has the same of them,
\* with the same values.
AgreeOnAllowed(p1, p2) ==
    \A k \in allowed_keys :
        /\ (k \in DOMAIN p1) = (k \in DOMAIN p2)
        /\ k \in DOMAIN p1 => p1[k] = p2[k]

\* C9: for two calls of _build_profile_fingerprint with the same sector and
\* user types, the fingerprints are identical when the profiles agree on every
\* allow-listed field (whatever other fields either has, also when one has no
\* field at all), and differ when the profiles differ in an allow-listed field.
C9_FingerprintDependsOnAllowedOnly ==
    fpCall.op = "called" =>
        /\ AgreeOnAllowed(fpCall.p1, fpCall.p2) => fpCall.f1 = fpCall.f2
        /\ ~AgreeOnAllowed(fpCall.p1, fpCall.p2) => fpCall.f1 # fpCall.f2

\* C10: score_results returns at most top_k results, no two of one URL, in
\* order of non-increasing score, each of them an input result with its final
\* score that no input result of the same URL outscores.
C10_TopKUniqueSorted ==
    scCall.op = "called" =>
        LET out == scCall.out
            scored == Scored(scCall.results, scCall.query)
        IN  /\ Len(out) <= scCall.top_k
            /\ \A i, j \in 1..Len(out) :
                  i < j => out[i].url # out[j].url /\ out[i].score >= out[j].score
            /\ \A i \in 1..Len(out) :
                  /\ \E m \in 1..Len(scored) : scored[m] = out[i]
                  /\ \A m \in 1..Len(scored) :
                        scored[m].url = out[i].url => scored[m].score <= out[i].score

\* A call whose input has the lower-scored result of a URL ahead of the
\* higher-scored one and more URLs than top_k, and which returned top_k > 0
\* results.
C10_Witness ==
    /\ scCall.op = "called" /\ scCall.top_k > 0
    /\ Len(scCall.out) = scCall.top_k
    /\ Cardinality({scCall.results[i].url : i \in 1..Len(scCall.results)})
          > scCall.top_k
    /\ \E i, j \in 1..Len(scCall.results) :
          /\ i < j
          /\ scCall.results[i].url = scCall.results[j].url
          /\ final_score(scCall.results[i], scCall.query)
                < final_score(scCall.results[j], scCall.query)

\* C11: scoring again the one-element list that score_results returned for a
\* one-element list, with the same query, gives the same list with the same
\* score.
C11_RescoringIdempotent ==
    (scCall.op = "rescored" /\ Len(scCall.results) = 1) =>
        scCall.out = scCall.results

\* The results the statement of C12 keeps: reliability at least
\* min_reliability, and a date that parses and is no more whole days old than
\* the limit of the intent, or, without such a date, reliability at least 0.95.
C12_Keeps(r) ==
    LET limit == IF fvCall.query_intent = "latest_news"
                 THEN fvCall.max_news_age_days ELSE fvCall.max_age_days
        rel == domain_reliability(r.domain)
    IN  /\ rel >= fvCall.min_reliability
        /\ IF r.published_date.fmt \in ParsedFormats
           THEN r.published_date.age \div 2 <= limit
           ELSE rel >= 950

\* C12: filter_verified_results returns, in input order, exactly the results
\* that are reliable enough and pass the recency rule; so none below
\* min_reliability is returned, and an input of low-trust results only gives
\* the empty list.
C12_FilterKeepsExactlyVerified ==
    fvCall.op = "filtered" =>
        /\ fvCall.out = SelectSeq(fvCall.results, C12_Keeps)
        /\ \A i \in 1..Len(fvCall.out) :
              domain_reliability(fvCall.out[i].domain) >= fvCall.min_reliability
        /\ (\A i \in 1..Len(fvCall.results) :
               domain_reliability(fvCall.results[i].domain)
                   < fvCall.min_reliability) => fvCall.out = <<>>

\* A news call over a trusted page 22 days old and an undated official page:
\* the first is dropped, the second kept.
C12_Witness ==
    /\ fvCall.op = "filtered"
    /\ fvCall.query_intent = "latest_news"
    /\ Len(fvCall.results) = 2 /\ Len(fvCall.out) = 1
    /\ fvCall.results[1].published_date.fmt = "%Y-%m-%dT%H:%M:%S%z"
    /\ fvCall.out[1].published_date.fmt = "none"

\* Strict mode is on, the providers returned results and none passed the filter.
Unsatisfied(all_results, intent, settings) ==
    /\ settings.strict_verified_mode
    /\ all_results # <<>>
    /\ RankPass(all_results, intent, settings).verified_results = <<>>

\* What a payload says about verification: its verification summary and the
\* verified mark of each cited source.
VerificationView(payload) ==
    [verification |-> payload.verification,
     verified |-> [i \in 1..Len(payload.sources) |-> payload.sources[i].verified]]

\* C13: when strict verified mode is on and no result passes the filter
\* although there are results, the ranking works on all results, sources are
\* cited, and the payload flags that verification could not be satisfied:
\* what it says about verification differs from what it says, for the same
\* intent and settings, whenever that is not the case.
C13_UnverifiedFallbackIsFlagged ==
    (/\ rkCall.op = "ranked"
     /\ Unsatisfied(rkCall.all_results, rkCall.intent, rkCall.settings)) =>
        /\ rkCall.pass.scoring_pool = rkCall.all_results
        /\ rkCall.pass.payload.sources # <<>>
        /\ \A n \in 0..MaxPool : \A other \in [1..n -> DatedResults] :
              ~Unsatisfied(other, rkCall.intent, rkCall.settings) =>
                  VerificationView(RankPass(other, rkCall.intent,
                                            rkCall.settings).payload)
                      # VerificationView(rkCall.pass.payload)

\* The (Groq key, model) pairs in key-major order.
GroqOrder(keys) ==
    [i \in 1..(keys * Len(FALLBACK_MODELS)) |->
        [via |-> "groq", key |-> ((i - 1) \div Len(FALLBACK_MODELS)) + 1,
         with |-> FALLBACK_MODELS[((i - 1) % Len(FALLBACK_MODELS)) + 1]]]

IsGroq(c) == c.via = "groq"

\* The walk of a generate call so far: OpenAI before every Groq pair and only
\* when configured, the Groq pairs a prefix of the key-major order (so none
\* twice), no more attempts than keys times budgets plus keys times models, no
\* non-empty answer passed over, a returned answer non-empty, and the
\* exhaustion error only after every candidate was tried.
C14_Walk ==
    LET tried == gen.tried
        groq == SelectSeq(tried, IsGroq)
        budgets == Len(_token_chain(gen.settings.openai_max_tokens))
    IN  /\ \A i, j \in 1..Len(tried) :
              (tried[i].via = "openai" /\ tried[j].via = "groq") => i < j
        /\ (tried # <<>> /\ gen.settings.openai_keys > 0) =>
              tried[1].via = "openai"
        /\ gen.settings.openai_keys = 0 => groq = tried
        /\ Len(groq) <= Len(GroqOrder(gen.settings.groq_keys))
        /\ groq = SubSeq(GroqOrder(gen.settings.groq_keys), 1, Len(groq))
        /\ Len(tried) <= gen.settings.openai_keys * budgets
                           + gen.settings.groq_keys * Len(FALLBACK_MODELS)
        /\ ~gen.passed_over
        /\ gen.pc = "returned" => gen.result # <<>> /\ gen.result # NoText
        /\ gen.pc = "raised" =>
              /\ groq = GroqOrder(gen.settings.groq_keys)
              /\ gen.settings.openai_keys > 0 => Len(groq) < Len(tried)

\* C14: LLMClient.generate is a bounded walk, OpenAI first when configured,
\* then each (Groq key, model) pair at most once in key-major order; it returns
\* the first non-empty answer and never an empty one, raises the exhaustion
\* error when every candidate failed or answered empty, and every call ends.
C14_GenerateBoundedWalk ==
    /\ []C14_Walk
    /\ (gen.pc \in {"openai", "groq"}) ~> (gen.pc \in {"returned", "raised"})

\* Two OpenAI keys with five budgets each and two Groq keys with five models
\* each have all failed: twenty attempts, then the exhaustion error.
C14_Witness ==
    /\ gen.pc = "raised"
    /\ gen.settings.openai_keys = 2 /\ gen.settings.groq_keys = 2
    /\ Len(gen.tried) = 20

\* C15: for a query that passed moderation chat_text never raises and always
\* returns a response: the aggregator's answer when aggregator.query
\* succeeded, else the direct LLM answer, else, the LLM tier having failed,
\* FALLBACK_MESSAGE; the tiers are entered in that order, each only after the
\* one before has failed.
C15_ThreeTierFallback ==
    /\ [](/\ ~tier.raised
          /\ tier.path = SubSeq(<<"aggregator", "llm", "static">>, 1,
                                Len(tier.path))
          /\ Len(tier.path) >= 2 => tier.aggregator = "raised"
          /\ Len(tier.path) = 3 => tier.llm = "raised"
          /\ tier.pc = "done" =>
                /\ tier.response.reply # NoText /\ tier.response.reply # <<>>
                /\ tier.aggregator = "returned" =>
                      tier.response.reply \in AggregatorAnswers
                /\ (tier.aggregator = "raised" /\ tier.llm = "returned") =>
                      tier.response.reply = gen.result
                /\ (tier.aggregator = "raised" /\ tier.llm = "raised") =>
                      tier.response.reply = FALLBACK_MESSAGE)
    /\ (tier.pc # "idle") ~> (tier.pc = "done")

\* The aggregator raised, every candidate of the fallback chain failed, and
\* the static message was returned.
C15_Witness ==
    /\ tier.pc = "done"
    /\ tier.path = <<"aggregator", "llm", "static">>
    /\ gen.pc = "raised"
    /\ tier.response.reply = FALLBACK_MESSAGE

\* C16: classify returns BLOCK for every query that matches a hard-block
\* pattern, whatever on-topic keywords or patterns and off-topic keywords it
\* contains and however few tokens it has.
C16_HardBlockWins ==
    (/\ tgCall.op = "classified"
     /\ \E i \in 1..Len(tgCall.query) : tgCall.query[i] = "SHIT") =>
        tgCall.verdict = "BLOCK"

\* A four-token query with an abusive word, an on-topic keyword, an on-topic
\* pattern and an off-topic keyword was classified.
C16_Witness ==
    /\ tgCall.op = "classified"
    /\ tgCall.query = <<"scheme", "pm", "cricket", "SHIT">>
    /\ tgCall.verdict = "BLOCK"

\* C17: update_profile changes exactly the fields whose key is in updates
\* with a value that is not None, and sets them to that value; no field that
\* get_profile reported before the call is missing after it; warnings,
\* blocked_until and chat_history stay as they were.
C17_UpdateProfileFrame ==
    ssOp.fn = "update_profile" =>
        /\ \A k \in DOMAIN ss :
              IF k \in DOMAIN ssOp.updates /\ k \in ProfileKeys
              THEN IF ssOp.updates[k] # None THEN ss[k] = ssOp.updates[k]
                   ELSE ss[k] = ssOp.pre[k]
              ELSE ss[k] = ssOp.pre[k]
        /\ DOMAIN get_profile(ssOp.pre) \subseteq DOMAIN get_profile(ss)
        /\ ss.warnings = ssOp.pre.warnings
        /\ ss.blocked_until = ssOp.pre.blocked_until
        /\ ss.chat_history = ssOp.pre.chat_history

\* The session has a state: get_profile reports one.
HasState(sess) ==
    \/ "state" \in DOMAIN get_profile(sess)
    \/ "state_code" \in DOMAIN get_profile(sess)

\* C18: set_state_from_ip sets state code and name when the session has no
\* state and the lookup gave one, and leaves the session unchanged when a
\* state is known or the lookup gave none.
C18_IpStateOnlyWhenUnknown ==
    ssOp.fn = "set_state_from_ip" =>
        IF ~HasState(ssOp.pre) /\ ssOp.state_info # NoInfo
        THEN ss = [ssOp.pre EXCEPT !.state_code = ssOp.state_info.code,
                                   !.state_name = ssOp.state_info.name]
        ELSE ss = ssOp.pre

\* A lookup gave Maharashtra for a session whose state, named by the user, was
\* Tamil Nadu.
C18_Witness ==
    /\ ssOp.fn = "set_state_from_ip"
    /\ ssOp.state_info.code = "MH"
    /\ ssOp.pre.state_code = "TN"
    /\ ss.state_code = "TN" /\ ss.state_name = "Tamil Nadu"

\* C20: after n append_chat calls chat_history holds the latest min(n, 30)
\* messages appended, in the order of the appends.
C20_HistoryNewestThirty ==
    LET kept == Min(ssCount, MAX_HISTORY)
    IN  /\ Len(ss.chat_history) <= MAX_HISTORY
        /\ ss.chat_history =
              [i \in 1..kept |->
                  [role |-> RoleOf(ssCount - kept + i),
                   content |-> ssCount - kept + i]]

\* Thirty-two messages were appended: the first two are gone.
C20_Witness ==
    /\ ssCount = 32
    /\ Len(ss.chat_history) = 30
    /\ ss.chat_history[1].content = 3
    /\ ss.chat_history[30].content = 32

\* C19: a state named in a query is in the session profile after the request,
\* also when a state from an IP lookup was stored before; and a request that
\* names no state uses the state the user named last, not a looked-up one.
C19_NamedStateWins ==
    rsOp.fn = "request" =>
        /\ rsOp.query_state # NoInfo =>
              /\ rsSess.state_code = rsOp.query_state.code
              /\ rsSess.state_name = rsOp.query_state.name
        /\ (rsOp.query_state = NoInfo /\ rsOp.named_before # NoInfo) =>
              rsOp.final_state = rsOp.named_before


\* The steps of the request followed that call a provider or a language model.
HeavySteps == {"create_task", "asyncio.wait", "llm.generate"}

\* The row of the request's cache key as the request found it, deserialized.
StoredBefore ==
    {json_loads(r.payload_json) :
        r \in RowsOf(pq.pre_table, KeyOf(PipeInput(PipeQuery, get_profile(pq.pre))))}

\* C21: a request whose cache lookup hits appends exactly the user query and
\* then the cached answer to the history of its session, returns the cached
\* payload with cache_hit set to true, and calls no provider and no language
\* model.
C21_CacheHitAppendsAndReturns ==
    (pq.pc = "returned" /\ pq.hit) =>
        /\ StoredBefore = {pq.cached}
        /\ pqSess.chat_history =
              Last(pq.pre.chat_history
                     \o <<[role |-> "user", content |-> pq.query],
                          [role |-> "assistant", content |-> CachedAnswer(pq.cached)]>>,
                   MAX_HISTORY)
        /\ pq.payload.val.cache_hit = PyBool(TRUE)
        /\ \A k \in DOMAIN pq.cached.val \ {"cache_hit"} :
              pq.payload.val[k] = pq.cached.val[k]
        /\ \A i \in DOMAIN pq.log : pq.log[i] \notin HeavySteps

\* A hit on the payload another wording of the query stored, in a session
\* that has a history.
C21_Witness ==
    /\ pq.pc = "returned" /\ pq.hit
    /\ pq.query = " P  K"
    /\ CachedAnswer(pq.cached) = "B"
    /\ pq.pre.chat_history # <<>>
    /\ \E i \in DOMAIN pq.pre.chat_history : pq.pre.chat_history[i].content = "p k"

\* C23: a greeting leaves APIAggregator.query by the fast path: it creates no
\* provider task, neither reads nor writes the cache, neither reads nor changes
\* the session (no profile mining, no history append), and what it returns has
\* empty sources and an empty providers_queried.
C23_GreetingShortCircuits ==
    pq.greeting =>
        /\ pqSess = pq.pre
        /\ pqTable = pq.pre_table
        /\ \A i \in DOMAIN pq.log :
              pq.log[i] \in {"classify", "llm.generate", "return", "raise"}
        /\ pq.pc = "returned" =>
              /\ pq.payload.val.sources = PyList(<<>>)
              /\ pq.payload.val.providers_queried = PyList(<<>>)

\* A greeting answered in a session that has a history, with a row cached.
C23_Witness ==
    /\ pq.greeting /\ pq.pc = "returned"
    /\ pq.pre.chat_history # <<>>
    /\ pqTable # {}

\* The places of a step in the log.
StepsAt(step) == {i \in DOMAIN pq.log : pq.log[i] = step}

\* C30: on a cache miss the steps run in the order dispatch, score, synthesize,
\* cache store, history append, response: the cache entry is written after
\* the synthesis and before the exchange is appended to the history.
C30_MissStepOrder ==
    \A p \in StepsAt("cache.put") :
        /\ \A d \in StepsAt("create_task") : d < p
        /\ \A s \in StepsAt("score_results") : s < p
        /\ \A g \in StepsAt("llm.generate") : g < p
        /\ \A a \in StepsAt("append_chat") : p < a
        /\ \A r \in StepsAt("return") : p < r

\* The row a get found holds a payload that cannot be deserialized.
FoundDamaged ==
    /\ cacheOp.prior # NoRow
    /\ ~(cacheOp.prior.expires_at < cnow)
    /\ cacheOp.prior.payload_json.kind \in DamageKinds

\* C22: a get that finds a stored payload it cannot deserialize returns a miss
\* without raising and deletes the row; and a get that finds no row of its key
\* is a miss, so every later get of the key misses until a put of it.
C22_UndeserializableIsMissAndPurged ==
    (enabled /\ cacheOp.op = "get") =>
        /\ FoundDamaged => (cacheOp.result = PyNone /\ cacheOp.rows = 0)
        /\ cacheOp.prior = NoRow => cacheOp.result = PyNone

\* C24: over every channel that reaches APIAggregator.query the query passes
\* the topic guard and the block status check first: a query whose verdict is
\* BLOCK, and a query of a session with an active block, get no pipeline
\* answer over any channel.
C24_NoChannelBypassesModeration ==
    epOp.channel # None =>
        /\ epOp.answered => (epOp.guard /\ epOp.block_check)
        /\ classify(CHOOSE q \in ChatQueries : q.id = epOp.query) = "BLOCK" =>
              ~epOp.answered
        /\ is_blocked(epOp.pre, 0).blocked => ~epOp.answered

\* C25: when a text-chat request carries user_state, the state handed to the
\* pipeline as resolved_state is that client-supplied state, whatever the IP
\* lookup would give.
C25_UserStateHonoured ==
    (rsOp.fn = "request" /\ rsOp.user_state # None /\ rsOp.user_state # "") =>
        /\ rsOp.state_info # NoInfo
        /\ rsOp.state_info.code = rsOp.user_state

\* The admitted requests of an address in the 60 seconds from a time on.
AdmittedIn(ip, a) ==
    {i \in DOMAIN rl.admitted_at[ip] :
        a <= rl.admitted_at[ip][i] /\ rl.admitted_at[ip][i] < a + window}

\* The admitted requests of an address that are at most 60 seconds old.
AdmittedLately(ip) ==
    {i \in DOMAIN rl.admitted_at[ip] : rl.t_now - rl.admitted_at[ip][i] <= window}

\* C26: for every address and every window of 60 seconds the limiter admits
\* at most requests_per_minute requests, also while requests of the address
\* wait in call_next; a rejected request is not recorded; a request is
\* rejected only for requests admitted in the last 60 seconds; and a request
\* of one address leaves the entries of the others alone.
C26_RateLimitPerIp ==
    /\ \A ip \in ClientIps : \A k \in 0..MaxRateTicks :
          Cardinality(AdmittedIn(ip, k * RateStep)) <= rl.requests_per_minute
    /\ rl.ip # None =>
          /\ ~rl.admitted =>
                /\ rl.store[rl.ip] = Recent(rl.pre[rl.ip], rl.t_now)
                /\ Cardinality(AdmittedLately(rl.ip)) >= rl.requests_per_minute
          /\ rl.admitted =>
                rl.store[rl.ip] = Append(Recent(rl.pre[rl.ip], rl.t_now), rl.t_now)
          /\ \A other \in ClientIps \ {rl.ip} : rl.store[other] = rl.pre[other]

\* An address at its limit of two, both requests still in call_next, is
\* rejected while the other address is admitted, and is admitted again a
\* window after its first request.
C26_Witness ==
    /\ rl.requests_per_minute = 2
    /\ rl.ip = "ip1" /\ rl.admitted
    /\ Len(rl.admitted_at["ip1"]) = 3
    /\ rl.admitted_at["ip1"][1] = 0
    /\ rl.t_now = window
    /\ rl.in_call_next["ip1"] = 3
    /\ Len(rl.admitted_at["ip2"]) = 1
    /\ rl.count = 5

\* The providers listed for the intent of the fan-out that are available.
ListedAvailable ==
    {INTENT_PROVIDERS(foCall.intent)[i] : i \in DOMAIN INTENT_PROVIDERS(foCall.intent)}
        \cap foCall.available

\* The provider of the further sub-queries: tavily, else ddg, else none.
Fastest ==
    IF "tavily" \in ListedAvailable THEN {"tavily"}
    ELSE IF "ddg" \in ListedAvailable THEN {"ddg"}
    ELSE {}

\* C27: on a cache miss of a query that is no greeting the tasks created are
\* exactly one per listed and available provider for sub-query 0, the original
\* query, and for each further sub-query one on tavily if it is selected, else
\* one on ddg if it is selected, else none; each task is created once; there
\* are at most 4 sub-queries and so at most |selected| + 3 tasks.
C27_FanOutTaskSet ==
    foCall.op = "fan-out" =>
        /\ {foCall.created[i].key : i \in DOMAIN foCall.created} =
              {TaskKey(p, 0) : p \in ListedAvailable}
                \cup {TaskKey(p, i) :
                        p \in Fastest, i \in 1..(Len(foCall.sub_queries) - 1)}
        /\ \A i, j \in DOMAIN foCall.created :
              foCall.created[i].key = foCall.created[j].key => i = j
        /\ \A i \in DOMAIN foCall.created :
              foCall.created[i].query = foCall.sub_queries[foCall.created[i].key.q_idx + 1]
        /\ foCall.sub_queries[1] = [kind |-> "base", query |-> "q"]
        /\ Len(foCall.sub_queries) <= 4
        /\ Len(foCall.created) <= Cardinality(ListedAvailable) + 3

\* Four sub-queries with tavily down and openai not registered: the further
\* ones go to ddg.
C27_Witness ==
    /\ foCall.op = "fan-out"
    /\ Len(foCall.sub_queries) = 4
    /\ "tavily" \notin foCall.available
    /\ ~foCall.enable_openai
    /\ Len(foCall.selected) = 4
    /\ Len(foCall.created) = 7

\* The configured keys in the order of the statement: the numbered keys, then
\* the entries of the comma-separated list.
Configured ==
    <<oa.openai_api_key, oa.openai_api_key_2, oa.openai_api_key_3>>
    \o [i \in 1..Len(SplitOn(oa.openai_api_keys_csv, ",", <<>>)) |->
            Strip(SplitOn(oa.openai_api_keys_csv, ",", <<>>)[i])]

\* The place of the first occurrence of a key among the configured keys.
FirstPlace(key) ==
    CHOOSE i \in DOMAIN Configured :
        /\ Configured[i] = key
        /\ \A j \in 1..(i - 1) : Configured[j] # key

\* C28: all_openai_keys returns each distinct configured key that is not empty
\* exactly once, in the order of first occurrence, the numbered keys coming
\* before the entries of the comma-separated list.
C28_OpenAIKeysDistinctInOrder ==
    oa.read =>
        /\ {oa.keys[i] : i \in DOMAIN oa.keys} =
              {Configured[i] : i \in DOMAIN Configured} \ {<<>>}
        /\ \A i, j \in DOMAIN oa.keys : oa.keys[i] = oa.keys[j] => i = j
        /\ \A i, j \in DOMAIN oa.keys :
              i < j => FirstPlace(oa.keys[i]) < FirstPlace(oa.keys[j])

\* A key configured twice among the numbered keys and once more in the list,
\* and a key the list alone has.
C28_Witness ==
    /\ oa.read
    /\ oa.openai_api_key = <<"a">>
    /\ oa.openai_api_key_3 = <<"a">>
    /\ oa.openai_api_key_2 = <<>>
    /\ oa.openai_api_keys_csv = <<"b", ",", "a">>
    /\ oa.keys = <<<<"a">>, <<"b">>>>

\* What classify read off the query it classified.
GuardRead == GuardView(tgCall.query)

\* C29: for every combination of the five predicates classify returns BLOCK
\* exactly when a hard-block pattern matches, WARN exactly when no hard-block
\* pattern, no on-topic keyword and no on-topic pattern matches, the query has
\* more than 4 tokens and contains an off-topic keyword, and ALLOWED in every
\* other case; a query of at most 4 tokens without a hard-block pattern is
\* ALLOWED, off-topic keywords or not.
C29_SixStepPriority ==
    tgCall.op = "classified" =>
        /\ tgCall.verdict = "BLOCK" <=> GuardRead.hard
        /\ tgCall.verdict = "WARN" <=>
              (/\ ~GuardRead.hard /\ ~GuardRead.on_kw /\ ~GuardRead.on_pat
               /\ Len(tgCall.query) > 4 /\ GuardRead.off_kw)
        /\ tgCall.verdict \in {"BLOCK", "WARN", "ALLOWED"}
        /\ (Len(tgCall.query) <= 4 /\ ~GuardRead.hard) => tgCall.verdict = "ALLOWED"

\* Four tokens holding five words, off-topic keywords among them and nothing
\* on topic: allowed.
C29_Witness ==
    /\ tgCall.op = "classified"
    /\ tgCall.query = <<"cricket", "ipl,cricket", "hello", "cricket">>
    /\ GuardRead.off_kw
    /\ tgCall.verdict = "ALLOWED"

\* The keys of the rows of a table.
KeysIn(tbl) == {r.cache_key : r \in tbl}

\* One step of the cache, by the rows before and after it.
C31_Step ==
    /\ \A r \in table :
          r.cache_key \notin KeysIn(table') =>
              \/ /\ cacheOp'.op = "get"
                 /\ cacheOp'.key = r.cache_key
                 /\ r.expires_at < cnow \/ r.payload_json.kind \in DamageKinds
              \/ /\ cacheOp'.op = "purge"
                 /\ r.expires_at < cnow
    /\ cacheOp'.op \in {"put", "get"} =>
          {r \in table' : r.cache_key # cacheOp'.key} =
              {r \in table : r.cache_key # cacheOp'.key}
    /\ cacheOp'.op = "put" /\ enabled => cacheOp'.key \in KeysIn(table')
    /\ cacheOp'.op = "purge" /\ enabled =>
          /\ table' = {r \in table : r.expires_at >= cnow}
          /\ cacheOp'.result = PyInt(Cardinality({r \in table : r.expires_at < cnow}))

\* C31: a cache row is deleted only by a get of its own key, when it is
\* expired or corrupt, or by purge_expired; put and get leave the rows of the
\* other keys as they are; purge_expired deletes exactly the rows with
\* expires_at < now, returns their number and leaves the other rows unchanged.
C31_RowsDeletedOnlyByGetOrPurge == [][C31_Step]_vars

\* purge_expired deleted one row and left another, not yet expired.
C31_Witness ==
    /\ cacheOp.op = "purge"
    /\ cacheOp.result = PyInt(1)
    /\ Cardinality(table) = 1
    /\ \A r \in table : r.expires_at >= cnow

\* The latest completion call of the walk, and whether OpenAI made it.
LatestTry == gen.tried[Len(gen.tried)]

AfterOpenAITry ==
    /\ gen.tried # <<>>
    /\ LatestTry.via = "openai"
    /\ gen.last \in {"token_error", "error"}

\* The key and the budget of the next completion call of OpenAIClient.generate.
NextOpenAIKey == gen.key_order[gen.kpos] + 1

NextBudget == _token_chain(gen.settings.openai_max_tokens)[gen.tpos]

\* The smallest budget of the chain.
LeastBudget ==
    CHOOSE b \in {_token_chain(gen.settings.openai_max_tokens)[i] :
                    i \in DOMAIN _token_chain(gen.settings.openai_max_tokens)} :
        \A i \in DOMAIN _token_chain(gen.settings.openai_max_tokens) :
            b <= _token_chain(gen.settings.openai_max_tokens)[i]

\* C32: in OpenAIClient.generate a token-limit error on a key is followed by
\* a call on the same key with a strictly smaller budget, until the budgets
\* are exhausted; any other error is followed by the next key, if there is
\* one; the calls on one key are not interrupted by calls on another, so each
\* key is tried once per call of generate.
C32_TokenErrorShrinksBudget ==
    /\ (AfterOpenAITry /\ gen.last = "token_error" /\ LatestTry.with # LeastBudget) =>
          /\ gen.pc = "openai"
          /\ NextOpenAIKey = LatestTry.key
          /\ NextBudget < LatestTry.with
    /\ (AfterOpenAITry /\ gen.last = "token_error" /\ LatestTry.with = LeastBudget) =>
          (gen.pc = "openai" => NextOpenAIKey # LatestTry.key)
    /\ (AfterOpenAITry /\ gen.last = "error") =>
          (gen.pc = "openai" => NextOpenAIKey # LatestTry.key)
    /\ \A i, j, k \in DOMAIN gen.tried :
          (/\ i < j /\ j < k
           /\ gen.tried[i].via = "openai" /\ gen.tried[k].via = "openai"
           /\ gen.tried[i].key = gen.tried[k].key)
              => (gen.tried[j].via = "openai" /\ gen.tried[j].key = gen.tried[i].key)

\* The canonical text of a profile, a sector and a set of user-type tags: the
\* allow-listed known fields, the sector or "", the tags in ascending order.
CanonicalText(prof, sector, tags) ==
    [kind |-> "object",
     val |-> [profile |->
                 [kind |-> "object",
                  val |-> [k \in {x \in DOMAIN prof \cap allowed_keys : prof[x] # PyNone} |->
                              json_dumps(prof[k])]],
              sector |-> IF sector = PyNone THEN json_dumps(PyStr(""))
                         ELSE json_dumps(sector),
              user_types |->
                 [kind |-> "array",
                  val |-> IF tags = {} THEN <<>>
                          ELSE <<json_dumps(PyStr("farmer")), json_dumps(PyStr("women"))>>]]]

Under(d) ==
    {i \in Listed :
        \/ DOMAIN_TRUST[i].name = d
        \/ EndsWith(d, <<".">> \o DOMAIN_TRUST[i].name)
        \/ Head(DOMAIN_TRUST[i].name) = "." /\ EndsWith(d, DOMAIN_TRUST[i].name)}

\* The most specific of them: the one with the longest name.
MostSpecific(d) ==
    CHOOSE i \in Under(d) :
        \A j \in Under(d) : Len(DOMAIN_TRUST[j].name) <= Len(DOMAIN_TRUST[i].name)

\* C34: domain_reliability returns the score of the most specific trust-table
\* entry that the domain equals, is a subdomain of, or whose suffix it ends
\* with, so each listed domain gets its own listed score, and the default
\* 0.40 when there is none, also for a domain that only contains a listed
\* name.
C34_CuratedLookup ==
    trCall.op = "called" =>
        trCall.score =
            IF Under(Lower(trCall.domain)) = {} THEN DEFAULT_TRUST
            ELSE DOMAIN_TRUST[MostSpecific(Lower(trCall.domain))].score

\* One step of chat_text, by the warnings of a session before and after it.
C35_Step ==
    \A sid \in SessionIds :
        LET pre == sessions[sid]
            post == sessions'[sid]
            moderated == ev'.kind = "moderated" /\ ev'.session = sid
            expired == pre.blocked_until # 0 /\ pre.blocked_until <= now
            active == pre.blocked_until # 0 /\ now < pre.blocked_until
        IN  /\ post.warnings < pre.warnings =>
                  moderated /\ ev'.verdict # "BLOCK" /\ expired
            /\ ~moderated => post.warnings = pre.warnings
            /\ (moderated /\ ev'.verdict = "BLOCK") => post.warnings = pre.warnings
            /\ (moderated /\ ev'.verdict = "ALLOWED" /\ ~expired) =>
                  post.warnings = pre.warnings
            /\ (moderated /\ ev'.verdict = "WARN" /\ ~active) =>
                  /\ post.warnings = (IF expired THEN 0 ELSE pre.warnings) + 1
                  /\ post.warnings = MAX_WARNINGS =>
                        /\ ev'.is_blocked
                        /\ post.blocked_until = now + BLOCK_DURATION_SECONDS

\* C35: the warning counter of a session goes down only when is_blocked finds
\* an expired block; queries with verdict ALLOWED or BLOCK, pipelines that
\* return and the passing of time leave it as it is; each WARN query of a
\* session that is not blocked adds one, and the one that makes three blocks
\* the session, whatever came in between.
C35_WarningsResetOnlyByExpiry == [][C35_Step]_vars

\* The third warning of a session that had an exchange answered before, an
\* hour or more after the clock started.
C35_Witness ==
    /\ ev.kind = "moderated"
    /\ ev.verdict = "WARN"
    /\ ev.pre.warnings = 2
    /\ ev.pre.chat_history # <<>>
    /\ ev.pre.blocked_until = 0
    /\ now >= BLOCK_DURATION_SECONDS
    /\ sessions[ev.session].warnings = MAX_WARNINGS
    /\ ev.is_blocked

\* A session whose block is running.
ActiveBlock(sess) == sess.blocked_until # 0 /\ now < sess.blocked_until

\* C36: in every state reached through chat_text, concurrent requests of the
\* same session included, each session has 0 <= warnings <= 3 and a
\* blocked_until that is set exactly when warnings = 3; and no step moves the
\* counter or the deadline of a session whose block is running.
C36_WarningsAndBlockAgree ==
    /\ [](\A sid \in SessionIds :
            /\ sessions[sid].warnings \in 0..MAX_WARNINGS
            /\ sessions[sid].blocked_until # 0 <=> sessions[sid].warnings = MAX_WARNINGS)
    /\ [][\A sid \in SessionIds :
            ActiveBlock(sessions[sid]) =>
                /\ sessions'[sid].warnings = sessions[sid].warnings
                /\ sessions'[sid].blocked_until = sessions[sid].blocked_until]_vars

\* The third warning of a session falls while another request of the session
\* is suspended in its pipeline.
C36_Witness ==
    /\ ev.kind = "moderated"
    /\ ev.warn_no = MAX_WARNINGS
    /\ sessions[ev.session].warnings = MAX_WARNINGS
    /\ sessions[ev.session].blocked_until = now + BLOCK_DURATION_SECONDS
    /\ \E r \in Slots : reqs[r].pc = "dispatch" /\ reqs[r].session = ev.session

\* C37: whatever the order in which concurrent requests of a session reach
\* their suspension points, the chat history seen there is made of adjacent
\* pairs: its length is even, a user message stands at every odd place and is
\* followed by the answer of the same request, also after the history was cut
\* to its newest 30 entries.
C37_HistoryInPairs ==
    /\ Len(hs.chat_history) % 2 = 0
    /\ Len(hs.chat_history) <= MAX_HISTORY
    /\ \A i \in DOMAIN hs.chat_history :
          IF i % 2 = 1
          THEN /\ hs.chat_history[i].role = "user"
               /\ hs.chat_history[i + 1].role = "assistant"
               /\ hs.chat_history[i + 1].content = hs.chat_history[i].content
          ELSE hs.chat_history[i].role = "assistant"

\* The history was cut, the oldest pair left is not the first request's, and
\* a request that arrived later was answered before one still suspended.
C37_Witness ==
    /\ Len(hs.chat_history) = MAX_HISTORY
    /\ hs.chat_history[1].content > 1
    /\ \E r \in Slots :
          /\ hsReqs[r] # 0
          /\ hsReqs[r] < hs.chat_history[MAX_HISTORY].content

\* The rows a step of a thread that ends get's purge block takes away.
PurgedBy(t) ==
    IF th[t].pc = "purge_locked" /\ th'[t].pc = "idle" THEN thTable \ thTable' ELSE {}

\* C38: the purge that follows get's reading of a corrupt payload never
\* deletes a valid row, one that a put of another thread wrote for the key
\* after get had read it.
C38_Step == \A t \in Threads : \A r \in PurgedBy(t) :
    json_loads(r.payload_json) = JSONDecodeError

C38_PurgeSparesConcurrentPut == [][C38_Step]_vars

\* self._lock is held by at most one thread, and only inside a block.
LockHeldInBlock ==
    /\ \A t \in Threads : (thLock = {t}) <=> (th[t].pc \in {"locked", "purge_locked"})

\* The key a request looks up: made of its query and of the profile as the
\* request found the session, before the query was mined.
LookedUp(q, sess) == KeyOf(PipeInput(q, get_profile(sess)))

\* C39: the answer of a miss is stored under the key the request looked up,
\* although the mining of the query changed the session's profile in between,
\* and a request that makes the same key later is a hit.
C39_Step ==
    /\ (pq.pc = "synth" /\ pq'.pc = "returned") =>
          /\ \A r \in pqTable' \ pqTable : r.cache_key = LookedUp(PipeQuery, pq.pre)
          /\ \E r \in pqTable' :
                /\ r.cache_key = LookedUp(PipeQuery, pq.pre)
                /\ json_loads(r.payload_json) = pq'.payload
    /\ (pq'.count = pq.count + 1 /\ ~pq'.greeting) =>
          (pq'.hit <=> \E r \in pqTable : r.cache_key = LookedUp(PipeQuery', pqSess))

C39_StoredUnderLookedUpKey == [][C39_Step]_vars

\* A request missed, its query was mined for an occupation the profile did
\* not have, and its answer is stored under the key of the profile without it.
MinedAndStored ==
    /\ pq.pc = "returned" /\ ~pq.hit /\ ~pq.greeting
    /\ get_profile(pq.pre) # get_profile(pqSess)
    /\ \E r \in pqTable : r.cache_key = LookedUp(PipeQuery, pq.pre)
    /\ \A r \in pqTable : r.cache_key # LookedUp(PipeQuery, pqSess)

\* A request of a later session with the same query hits the entry that such
\* a request stored.
C39_Witness ==
    /\ pq.pc = "returned" /\ pq.hit /\ pq.query = "k farmer"
    /\ get_profile(pq.pre) # get_profile(pqSess)
    /\ pq.count = 2

\* The request ended in an exception of the synthesis: the step before the
\* exception was the call of llm.generate.
SynthesisRaised ==
    /\ pq.pc \in {"raised", "fallback"}
    /\ \E i \in DOMAIN pq.log : pq.log[i] = "llm.generate" /\ pq.log[i + 1] = "raise"

\* C40: a request whose synthesis raised has written no cache entry and
\* appended nothing to the chat history, the profile fields mined from its
\* query are in the session, and the fallback answer of chat_text is not put
\* into the history either.
C40_RaisedLeavesNoTrace ==
    SynthesisRaised =>
        /\ pqTable = pq.pre_table
        /\ pqSess.chat_history = pq.pre.chat_history
        /\ pqSess = Mined(pq.pre, PipeQuery)
        /\ PipeQuery.occupation # None => pqSess.occupation = PipeQuery.occupation

\* The synthesis of a request whose query was mined for an occupation raised,
\* chat_text answered from its fallback, and the session has the occupation
\* and the history of an earlier request only.
C40_Witness ==
    /\ SynthesisRaised /\ pq.pc = "fallback"
    /\ pq.payload = FallbackPayload("llm_fallback")
    /\ pq.pre.occupation = None /\ pqSess.occupation = "farmer"
    /\ Len(pqSess.chat_history) = 2
    /\ pqTable # {}
====
